---- MODULE Spec2Model ----
(***************************************************************************)
(* Kiosk configuration / inventory synchronisation protocol of the         *)
(* wecandoeat admin backend (FastAPI + SQLAlchemy AsyncSession).           *)
(*                                                                         *)
(* Every HTTP handler runs in its own request-scoped database session.     *)
(* A handler is modelled as a session that first loads the Kiosk row into  *)
(* an ORM object (a snapshot held in sess[s]) and later commits.  A commit *)
(* writes only the columns the handler assigned; an assigned column is     *)
(* written with the absolute value computed from the snapshot.             *)
(***************************************************************************)
EXTENDS Integers, Sequences, FiniteSets, TLC

None == "None"
\* NULL in an integer column, and the absent row of a lookup
NoId == 0
NoLink == [exists |-> FALSE]

(***************************** bounds **************************************)
MaxVersion == 3
MaxLogs == 2
MaxTime == 1
MaxKeys == 2
\* QR sessions created
MaxSessions == 1
\* clock of the session flow, in units of 300 s
MaxQrTime == 2
\* random.randint(0, 9999) draws from 0..MaxPairCode
MaxPairCode == 3
\* stock the +1 button and change_slot_stock count up to
MaxStock == 4

(***************************** fixed data **********************************)
Kiosks == {1, 2}
KioskIds == {1, 2, 3}
Sessions == {1, 2}
SlotIds == {1, 2, 3, 4}
SlotRequestIds == {1, 2, 3, 4, 5}
ProductIds == {1, 2}
ProductRequestIds == {1, 2, 3}
\* secrets.token_urlsafe(32): the n-th token generated, each one new
ApiKeyToken == (1 :> "key1") @@ (2 :> "key2") @@ (3 :> "key3")
\* X-Kiosk-Api-Key values a caller sends: absent, empty, kiosk 2's key, the first
\* generated key
HeaderKeys == {None, "", "key0", "key1"}
KioskCodes == {"K1", "K2", "KX"}
UploadUrls == {"r2/new.png"}
AppVersions == {"1.0"}
ClientIps == {"10.0.0.9"}
DeviceUuids == {"dev-1"}

DefaultConfigVersion == 1
DefaultScreensaverUrl == "r2/default.png"

KioskCode == (1 :> "K1") @@ (2 :> "K2")
PairCode == (1 :> "0001") @@ (2 :> "0002")
KioskName == (1 :> "kiosk-1") @@ (2 :> "kiosk-2")

\* vending_slots rows: the grid created with the kiosk, never resized
SlotKiosk == (1 :> 1) @@ (2 :> 1) @@ (3 :> 2) @@ (4 :> 1)
SlotRow == (1 :> 1) @@ (2 :> 1) @@ (3 :> 1) @@ (4 :> 2)
SlotCol == (1 :> 1) @@ (2 :> 2) @@ (3 :> 1) @@ (4 :> 1)
BoardCode == (1 :> "A01") @@ (2 :> "A02") @@ (3 :> "A01") @@ (4 :> "B01")
SlotLabel == (1 :> "1-1") @@ (2 :> "1-2") @@ (3 :> "1-1") @@ (4 :> "2-1")

\* master products (names are token sequences: "BR" is a <br> tag, "SP" a blank)
Products ==
  (1 :> [name |-> <<"Cola", "BR", "Zero">>, code |-> "P1", category |-> "DRINK",
         price |-> 1500, is_adult_only |-> FALSE, image_url |-> "r2/p1.png",
         detail_url |-> "r2/p1d.png", description |-> "d1", is_active |-> TRUE])
  @@
  (2 :> [name |-> <<"Chips">>, code |-> "P2", category |-> "SNACK",
         price |-> 2000, is_adult_only |-> TRUE, image_url |-> "r2/p2.png",
         detail_url |-> None, description |-> None, is_active |-> TRUE])

\* values an admin submits with the slot assignment form
AssignForms ==
  { [max_capacity |-> 5, current_stock |-> 3, low_stock_alarm |-> 1],
    [max_capacity |-> 0, current_stock |-> 0, low_stock_alarm |-> 0] }

\* the assign form with integers no field restricts: Form(0), any int
AnyAssignForms ==
  AssignForms \cup { [max_capacity |-> 5, current_stock |-> -1, low_stock_alarm |-> -1] }

\* values an admin submits with the kiosk-product edit form
EditForms ==
  { [name |-> <<"Tea", "BR", "Hot">>, price |-> 900, code |-> "", category |-> "TEA",
     is_adult_only |-> FALSE, description |-> "", is_active |-> TRUE,
     product_image |-> TRUE, detail_image |-> FALSE],
    [name |-> <<"Cola">>, price |-> 1500, code |-> "P1", category |-> "",
     is_adult_only |-> TRUE, description |-> "d", is_active |-> FALSE,
     product_image |-> FALSE, detail_image |-> TRUE] }

\* ttl_sec a kiosk sends with a session request (Field(ge=60, le=3600))
TtlSecs == {1, 2}
\* ttl_sec of send_phone_auth_code
DefaultTtl == 1
\* codes _generate_auth_code draws
AuthCodes == { <<"1", "2", "3", "4", "5", "6">>, <<"6", "5", "4", "3", "2", "1">> }
\* auth_code a customer types
AuthInputs == AuthCodes \cup { <<"SP", "1", "2", "3", "4", "5", "6">> }
\* phone a customer types
Phones == { <<"0", "1", "0", "-", "1", "2", "3", "4", "-", "5", "6", "7", "8">>,
            <<"0", "2", "1", "2", "3", "4", "5", "6", "7", "8">> }
\* user_id of the complete request (None or a user)
UserIds == {NoId, 7}
\* session ids a client names: the rows and one that does not exist
QrIds == 1..(MaxSessions + 1)
\* for _ in range(50)
MaxAttempts == 50
TOTAL_ROWS == 8
TOTAL_COLS == 10
\* f"{n:04d}"
Format04 ==
  (0 :> "0000") @@ (1 :> "0001") @@ (2 :> "0002") @@ (3 :> "0003") @@ (4 :> "0004")
  @@ (5 :> "0005") @@ (6 :> "0006") @@ (7 :> "0007") @@ (8 :> "0008") @@ (9 :> "0009")
\* code the admin types into the new-kiosk form
NewKioskCodes == {"K1", "N1", "N2", "N3"}

(***************************** pure helpers ********************************)
IsBlank(t) == t = "SP"

RECURSIVE LStrip(_)
LStrip(s) ==
  IF s = <<>> THEN <<>>
  ELSE IF IsBlank(Head(s)) THEN LStrip(Tail(s)) ELSE s

RECURSIVE RStrip(_)
RStrip(s) ==
  IF s = <<>> THEN <<>>
  ELSE IF IsBlank(s[Len(s)]) THEN RStrip(SubSeq(s, 1, Len(s) - 1)) ELSE s

Strip(s) == RStrip(LStrip(s))

\* _BR_RE.sub(" ", s)
BrToBlank(s) == [i \in 1..Len(s) |-> IF s[i] = "BR" THEN "SP" ELSE s[i]]

\* re.sub(r"\s+", " ", s)
RECURSIVE CollapseBlanks(_)
CollapseBlanks(s) ==
  IF s = <<>> THEN <<>>
  ELSE IF IsBlank(Head(s)) /\ Tail(s) # <<>> /\ IsBlank(Head(Tail(s)))
       THEN CollapseBlanks(Tail(s))
       ELSE <<Head(s)>> \o CollapseBlanks(Tail(s))

sanitize_text(value) ==
  IF value = <<>> THEN <<>>
  ELSE Strip(CollapseBlanks(BrToBlank(Strip(value))))

\* Python's "x or None" for form strings
OrNone(x) == IF x = "" \/ x = None THEN None ELSE x

Max(S) == CHOOSE x \in S : \A y \in S : y <= x

\* ascending insertion of a set of image rows by sort_order (sorted() is stable
\* over the relationship's own ORDER BY sort_order; ties are broken by id)
RECURSIVE SortImages(_)
SortImages(S) ==
  IF S = {} THEN <<>>
  ELSE LET m == CHOOSE x \in S : \A y \in S :
                   \/ x.sort_order < y.sort_order
                   \/ (x.sort_order = y.sort_order /\ x.id <= y.id)
       IN <<m>> \o SortImages(S \ {m})

(***************************** state ***************************************)
VARIABLES
  kiosks,               \* kiosks table: kiosk id -> row
  slots,                \* vending_slots.max_capacity: slot id -> capacity
  vsp,                  \* vending_slot_products: slot id -> row or None
  kiosk_products,       \* kiosk_products table: sequence, id = index
  screen_images,        \* kiosk_screen_images: set of rows
  image_seq,            \* id sequence of kiosk_screen_images
  status_logs,          \* kiosk_status_logs: sequence of rows
  key_seq,              \* number of API keys generated so far
  remote_vend,          \* in-process remote-vend mailbox: kiosk id -> slot id or NoId
  sess,                 \* request handlers in flight: session id -> position + ORM snapshot
  resp,                 \* the latest response sent to a device
  mutlog,               \* history: committed config mutations per kiosk
  now,                  \* wall clock
  qr_auth_sessions,     \* table qr_auth_sessions, id = position
  new_kiosks,           \* kiosks rows inserted by kiosk_create, in order
  create_req,           \* kiosk_create inside generate_unique_pair_code_4
  device                \* what the polling device of kiosk 1 holds

vars == <<kiosks, slots, vsp, kiosk_products, screen_images, image_seq,
          status_logs, key_seq, remote_vend, sess, resp, mutlog, now,
          qr_auth_sessions, new_kiosks, create_req, device>>

\* what the device and config routes never touch
side == <<qr_auth_sessions, new_kiosks, create_req, device>>

\* the relational tables
db == <<kiosks, slots, vsp, kiosk_products, screen_images, image_seq, status_logs>>

\* Optional[int] of the heartbeat payload
NoCur == [set |-> FALSE, v |-> 0]
Cur(n) == [set |-> TRUE, v |-> n]
\* values of current_config_version a device sends
CurChoices == {NoCur, Cur(1), Cur(2)}
\* low_stock_alarm left out of an inventory item
NoAlarm == -1
NoTime == -1
NoConfig == [kiosk_id |-> NoId]

\* a device that has not been paired yet
NoDevice == [version |-> NoCur, config |-> NoConfig, seen |-> 0]

\* no kiosk_create is running
NoCreate == [pc |-> "idle", attempts |-> 0, code |-> None, generate_api_key |-> FALSE]

Idle == [pc |-> "idle", k |-> 0, ver |-> 0, key |-> None, imgs |-> {}, cur |-> NoCur,
         rows |-> <<>>]

NoResp ==
  [op |-> "none", k |-> 0, status |-> 0, cur |-> NoCur,
   config_version |-> 0, has_config_update |-> FALSE, config |-> NoConfig,
   api_key |-> None, pairing_code |-> None, remote_vend_slot_id |-> NoId,
   items |-> <<>>, updated |-> 0, skipped |-> 0, mode |-> None,
   detail |-> None, session_id |-> NoId, session_status |-> None,
   expires_at |-> NoTime, verified_at |-> NoTime, auth_code |-> <<>>]

Response(fields) == fields @@ NoResp

AllIdle == \A s \in Sessions : sess[s].pc = "idle"

KioskRow(k, active, key) ==
  [ code |-> KioskCode[k], name |-> KioskName[k], is_active |-> active,
    api_key |-> key, pair_code_4 |-> PairCode[k],
    config_version |-> DefaultConfigVersion,
    device_uuid |-> None, app_version |-> None, last_ip |-> None,
    last_heartbeat_at |-> NoTime ]

\* state after kiosk_create has run for both kiosks (generate_api_key ticked for
\* kiosk 2 only); kiosk 2's row has since been switched off
Init ==
  /\ kiosks = (1 :> KioskRow(1, TRUE, None)) @@ (2 :> KioskRow(2, FALSE, "key0"))
  /\ slots = [sl \in SlotIds |-> 0]
  /\ vsp = [sl \in SlotIds |-> NoLink]
  /\ kiosk_products = <<>>
  /\ screen_images = { [id |-> k, kiosk_id |-> k, image_url |-> DefaultScreensaverUrl,
                        sort_order |-> 1, is_active |-> TRUE] : k \in Kiosks }
  /\ image_seq = 2
  /\ status_logs = <<>>
  /\ key_seq = 0
  /\ remote_vend = [k \in Kiosks |-> NoId]
  /\ sess = [s \in Sessions |-> Idle]
  /\ resp = NoResp
  /\ mutlog = [k \in Kiosks |-> <<>>]
  /\ now = 0
  /\ qr_auth_sessions = <<>>
  /\ new_kiosks = <<>>
  /\ create_req = NoCreate
  /\ device = NoDevice

(***************************** Config Builder ******************************)
KioskProductIds == 1..Len(kiosk_products)

\* one row of the outer join VendingSlot x VendingSlotProduct x KioskProduct
SlotConfig(sl) ==
  LET link == vsp[sl]
      bound == /\ link.exists
               /\ link.kiosk_product_id # NoId
               /\ link.kiosk_product_id \in KioskProductIds
      kp == kiosk_products[link.kiosk_product_id]
      geo == [slot_id |-> sl, board_code |-> BoardCode[sl], row |-> SlotRow[sl],
              col |-> SlotCol[sl], label |-> SlotLabel[sl],
              max_capacity |-> slots[sl]]
  IN IF bound
     THEN geo @@ [product_id |-> link.kiosk_product_id, product_name |-> kp.name,
                  price |-> kp.price, is_adult_only |-> kp.is_adult_only,
                  image_url |-> kp.image_url, detail_image_url |-> kp.detail_url,
                  category_code |-> kp.category, category_name |-> kp.category]
     ELSE geo @@ [product_id |-> NoId, product_name |-> <<>>, price |-> NoId,
                  is_adult_only |-> FALSE, image_url |-> None,
                  detail_image_url |-> None, category_code |-> None,
                  category_name |-> None]

\* the slot part of build_config: one SlotConfig per slot row of the kiosk
ConfigSlots(k) == [sl \in {x \in SlotIds : SlotKiosk[x] = k} |-> SlotConfig(sl)]

\* the screensaver part of build_config, from a loaded Kiosk.screen_images
ScreensaverUrls(images) ==
  LET active == {i \in images : i.is_active}
      sorted == SortImages(active)
  IN [n \in 1..Len(sorted) |-> sorted[n].image_url]

LoadScreenImages(k) == {i \in screen_images : i.kiosk_id = k}

build_config(k, images) ==
  [kiosk_id |-> k, kiosk_name |-> KioskName[k], slots |-> ConfigSlots(k),
   screensaver_images |-> ScreensaverUrls(images)]

\* what BuildConfig returns for the data stored right now
StoredConfig(k) == build_config(k, LoadScreenImages(k))

\* the orders in which result.all() may hand over the rows of the kiosk's
\* slots: the select of build_config has no order_by
RowOrders(k) ==
  LET S == {x \in SlotIds : SlotKiosk[x] = k}
  IN {o \in [1..Cardinality(S) -> S] : \A i, j \in 1..Cardinality(S) : i # j => o[i] # o[j]}

\* the slots list of build_config: one append per row, in the order of the rows
SlotList(order) == [n \in 1..Len(order) |-> SlotConfig(order[n])]

\* the KioskConfig a call returns when the rows arrive in the given order
build_config_rows(k, images, order) ==
  [kiosk_id |-> k, kiosk_name |-> KioskName[k], slots |-> SlotList(order),
   screensaver_images |-> ScreensaverUrls(images)]

\* one call of build_config on the committed data
BuildConfigCall(k) ==
  /\ AllIdle
  /\ \E order \in RowOrders(k) :
        resp' = Response([op |-> "build_config", k |-> k, status |-> 200,
                          config |-> build_config_rows(k, LoadScreenImages(k), order)])
  /\ UNCHANGED <<db, key_seq, remote_vend, sess, mutlog, now, side>>

(***************************** admin mutations *****************************)
\* an increment that steps over a version
BumpedVersion_Skip(ver) == ver + 2

\* the increment every admin route writes: "(kiosk.config_version or 0) + 1"
\* on the value the handler's Kiosk object holds
BumpedVersion(ver) == ver + 1

Logged(k, s, newver) ==
  [mutlog EXCEPT ![k] = Append(@, [read |-> sess[s].ver, wrote |-> newver])]

\* ensure_kiosk_access -> kiosk_service.get_by_id: the handler's Kiosk object
EnsureKioskAccess(s, k) ==
  /\ sess[s].pc = "idle"
  /\ k \in Kiosks
  /\ kiosks[k].config_version < MaxVersion
  /\ sess' = [sess EXCEPT ![s] = [Idle EXCEPT !.pc = "admin", !.k = k,
                                                !.ver = kiosks[k].config_version]]
  /\ UNCHANGED <<db, key_seq, remote_vend, resp, mutlog, now, side>>

\* ensure_kiosk_access for a run of up to cap - 1 mutations of the kiosk
EnsureKioskAccessWithin(s, k, cap) ==
  /\ sess[s].pc = "idle"
  /\ k \in Kiosks
  /\ kiosks[k].config_version < cap
  /\ sess' = [sess EXCEPT ![s] = [Idle EXCEPT !.pc = "admin", !.k = k,
                                                !.ver = kiosks[k].config_version]]
  /\ UNCHANGED <<db, key_seq, remote_vend, resp, mutlog, now, side>>

Finish(s) == sess' = [sess EXCEPT ![s] = Idle]

\* a lookup that never finds the kiosk's snapshot
FindKioskProduct_Never(k, pid) == NoId

\* lookup of the kiosk's snapshot of a master product (.limit(1).first())
FindKioskProduct(k, pid) ==
  LET found == {i \in KioskProductIds : /\ kiosk_products[i].kiosk_id = k
                                        /\ kiosk_products[i].base_product_id = pid}
  IN IF found = {} THEN NoId ELSE CHOOSE i \in found : \A j \in found : i <= j

NewKioskProduct(k, pid) ==
  LET b == Products[pid]
  IN [kiosk_id |-> k, base_product_id |-> pid, name |-> b.name, code |-> b.code,
      category |-> b.category, price |-> b.price, is_adult_only |-> b.is_adult_only,
      image_url |-> b.image_url, detail_url |-> b.detail_url,
      description |-> b.description, is_active |-> b.is_active]

\* body shared by kiosk_slot_assign and kiosk_slot_assign_json
AssignBody(s, slot_id, product_id, form) ==
  LET k == sess[s].k
      existing == FindKioskProduct(k, product_id)
      kpid == IF existing = NoId THEN Len(kiosk_products) + 1 ELSE existing
  IN IF slot_id \notin SlotIds \/ SlotKiosk[slot_id] # k \/ product_id \notin ProductIds
     THEN UNCHANGED <<db, mutlog, side>>
     ELSE /\ kiosk_products' = IF existing = NoId
                                THEN Append(kiosk_products, NewKioskProduct(k, product_id))
                                ELSE kiosk_products
          /\ slots' = [slots EXCEPT ![slot_id] = form.max_capacity]
          /\ vsp' = [vsp EXCEPT ![slot_id] =
                       [exists |-> TRUE,
                        product_id |-> IF @.exists THEN @.product_id ELSE NoId,
                        kiosk_product_id |-> kpid,
                        current_stock |-> form.current_stock,
                        low_stock_alarm |-> form.low_stock_alarm,
                        is_active |-> TRUE]]
          /\ kiosks' = [kiosks EXCEPT ![k].config_version = BumpedVersion(sess[s].ver)]
          /\ mutlog' = Logged(k, s, kiosks'[k].config_version)
          /\ UNCHANGED <<screen_images, image_seq, status_logs, side>>

kiosk_slot_assign(s, slot_id, product_id, form) ==
  /\ sess[s].pc = "admin"
  /\ AssignBody(s, slot_id, product_id, form)
  /\ Finish(s)
  /\ UNCHANGED <<key_seq, remote_vend, resp, now, side>>

kiosk_slot_assign_json(s, slot_id, product_id, form) ==
  /\ sess[s].pc = "admin"
  /\ AssignBody(s, slot_id, product_id, form)
  /\ Finish(s)
  /\ UNCHANGED <<key_seq, remote_vend, resp, now, side>>

kiosk_slot_clear(s, slot_id) ==
  LET k == sess[s].k
  IN /\ sess[s].pc = "admin"
     /\ IF slot_id \notin SlotIds \/ SlotKiosk[slot_id] # k
        THEN UNCHANGED <<db, mutlog, side>>
        ELSE /\ vsp' = [vsp EXCEPT ![slot_id] = NoLink]
             /\ slots' = [slots EXCEPT ![slot_id] = 0]
             /\ kiosks' = [kiosks EXCEPT ![k].config_version = BumpedVersion(sess[s].ver)]
             /\ mutlog' = Logged(k, s, kiosks'[k].config_version)
             /\ UNCHANGED <<kiosk_products, screen_images, image_seq, status_logs, side>>
     /\ Finish(s)
     /\ UNCHANGED <<key_seq, remote_vend, resp, now, side>>

kiosk_screensaver_upload(s, url) ==
  LET k == sess[s].k
      orders == {i.sort_order : i \in LoadScreenImages(k)}
      max_order == IF orders = {} THEN 0 ELSE Max(orders)
  IN /\ sess[s].pc = "admin"
     /\ screen_images' = screen_images \cup
           { [id |-> image_seq + 1, kiosk_id |-> k, image_url |-> url,
              sort_order |-> max_order + 1, is_active |-> TRUE] }
     /\ image_seq' = image_seq + 1
     /\ kiosks' = [kiosks EXCEPT ![k].config_version = BumpedVersion(sess[s].ver)]
     /\ mutlog' = Logged(k, s, kiosks'[k].config_version)
     /\ Finish(s)
     /\ UNCHANGED <<slots, vsp, kiosk_products, status_logs, key_seq, remote_vend, resp, now, side>>

kiosk_screensaver_delete(s, image_id) ==
  LET k == sess[s].k
      img == {i \in screen_images : i.id = image_id /\ i.kiosk_id = k}
  IN /\ sess[s].pc = "admin"
     /\ IF img = {}
        THEN UNCHANGED <<db, mutlog, side>>
        ELSE /\ screen_images' = screen_images \ img
             /\ kiosks' = [kiosks EXCEPT ![k].config_version = BumpedVersion(sess[s].ver)]
             /\ mutlog' = Logged(k, s, kiosks'[k].config_version)
             /\ UNCHANGED <<slots, vsp, kiosk_products, image_seq, status_logs, side>>
     /\ Finish(s)
     /\ UNCHANGED <<key_seq, remote_vend, resp, now, side>>

\* the edit route without the "kp.kiosk_id != kiosk_id" test
kiosk_product_edit_submit_AnyKiosk(s, kiosk_product_id, form, url) ==
  LET k == sess[s].k
  IN /\ sess[s].pc = "admin"
     /\ IF kiosk_product_id \notin KioskProductIds
        THEN UNCHANGED <<db, mutlog, side>>
        ELSE LET kp == kiosk_products[kiosk_product_id]
             IN /\ kiosk_products' = [kiosk_products EXCEPT ![kiosk_product_id] =
                     [kp EXCEPT !.name = form.name,
                                !.price = form.price,
                                !.code = OrNone(form.code),
                                !.category = OrNone(form.category),
                                !.is_adult_only = form.is_adult_only,
                                !.description = OrNone(form.description),
                                !.is_active = form.is_active,
                                !.image_url = IF form.product_image THEN url ELSE @,
                                !.detail_url = IF form.detail_image THEN url ELSE @]]
                /\ kiosks' = [kiosks EXCEPT ![k].config_version = BumpedVersion(sess[s].ver)]
                /\ mutlog' = Logged(k, s, kiosks'[k].config_version)
                /\ UNCHANGED <<slots, vsp, screen_images, image_seq, status_logs, side>>
     /\ Finish(s)
     /\ UNCHANGED <<key_seq, remote_vend, resp, now, side>>

kiosk_product_edit_submit(s, kiosk_product_id, form, url) ==
  LET k == sess[s].k
  IN /\ sess[s].pc = "admin"
     /\ IF \/ kiosk_product_id \notin KioskProductIds
           \/ kiosk_products[kiosk_product_id].kiosk_id # k
        THEN UNCHANGED <<db, mutlog, side>>
        ELSE LET kp == kiosk_products[kiosk_product_id]
             IN /\ kiosk_products' = [kiosk_products EXCEPT ![kiosk_product_id] =
                     [kp EXCEPT !.name = form.name,
                                !.price = form.price,
                                !.code = OrNone(form.code),
                                !.category = OrNone(form.category),
                                !.is_adult_only = form.is_adult_only,
                                !.description = OrNone(form.description),
                                !.is_active = form.is_active,
                                !.image_url = IF form.product_image THEN url ELSE @,
                                !.detail_url = IF form.detail_image THEN url ELSE @]]
                /\ kiosks' = [kiosks EXCEPT ![k].config_version = BumpedVersion(sess[s].ver)]
                /\ mutlog' = Logged(k, s, kiosks'[k].config_version)
                /\ UNCHANGED <<slots, vsp, screen_images, image_seq, status_logs, side>>
     /\ Finish(s)
     /\ UNCHANGED <<key_seq, remote_vend, resp, now, side>>

\* kiosk_service.bump_config_version: db.get, increment, commit
bump_config_version(s) ==
  LET k == sess[s].k
  IN /\ sess[s].pc = "admin"
     /\ kiosks' = [kiosks EXCEPT ![k].config_version = BumpedVersion(sess[s].ver)]
     /\ mutlog' = Logged(k, s, kiosks'[k].config_version)
     /\ Finish(s)
     /\ UNCHANGED <<slots, vsp, kiosk_products, screen_images, image_seq, status_logs,
                    key_seq, remote_vend, resp, now, side>>

\* vending_service.upsert_slot_product: no Kiosk row is loaded or written
upsert_slot_product(slot_id, product_id, form) ==
  /\ slot_id \in SlotIds
  /\ slots' = [slots EXCEPT ![slot_id] = form.max_capacity]
  /\ vsp' = [vsp EXCEPT ![slot_id] =
               [exists |-> TRUE,
                product_id |-> product_id,
                kiosk_product_id |-> IF @.exists THEN @.kiosk_product_id ELSE NoId,
                current_stock |-> form.current_stock,
                low_stock_alarm |-> form.low_stock_alarm,
                is_active |-> TRUE]]
  /\ UNCHANGED <<kiosks, kiosk_products, screen_images, image_seq, status_logs,
                 key_seq, remote_vend, sess, resp, mutlog, now, side>>

\* kiosk_product_i18n.fill_kiosk_product_i18n: every path that commits stores
\* the sanitized name; the translation columns are not part of the config
fill_kiosk_product_i18n(kiosk_product_id) ==
  /\ kiosk_product_id \in KioskProductIds
  /\ LET raw_name == kiosk_products[kiosk_product_id].name
         clean_name == sanitize_text(raw_name)
     IN kiosk_products' = [kiosk_products EXCEPT ![kiosk_product_id].name = clean_name]
  /\ UNCHANGED <<kiosks, slots, vsp, screen_images, image_seq, status_logs,
                 key_seq, remote_vend, sess, resp, mutlog, now, side>>

\* ---- POST /kiosks/{kiosk_id}/slots/{slot_id}/stock: the binding is selected
\* by slot_id alone; "inc" adds one, "dec" takes one from a positive stock
kiosk_slot_stock_update(s, slot_id, action) ==
  /\ sess[s].pc = "admin"
  /\ IF slot_id \notin SlotIds \/ ~vsp[slot_id].exists
     THEN UNCHANGED vsp
     ELSE /\ action = "inc" => vsp[slot_id].current_stock < MaxStock
          /\ vsp' = [vsp EXCEPT ![slot_id].current_stock =
                       IF action = "inc" THEN @ + 1
                       ELSE IF action = "dec" /\ @ > 0 THEN @ - 1
                       ELSE @]
  /\ Finish(s)
  /\ UNCHANGED <<kiosks, slots, kiosk_products, screen_images, image_seq, status_logs,
                 key_seq, remote_vend, resp, mutlog, now, side>>

\* vending_service.change_slot_stock: no binding, no write; the sum is cut at 0
change_slot_stock(slot_id, delta) ==
  /\ slot_id \in SlotIds
  /\ vsp[slot_id].exists
  /\ vsp[slot_id].current_stock + delta <= MaxStock
  /\ LET new_stock == vsp[slot_id].current_stock + delta
     IN vsp' = [vsp EXCEPT ![slot_id].current_stock =
                   IF new_stock < 0 THEN 0 ELSE new_stock]
  /\ UNCHANGED <<kiosks, slots, kiosk_products, screen_images, image_seq, status_logs,
                 key_seq, remote_vend, sess, resp, mutlog, now, side>>

(***************************** device API ***********************************)
\* kiosk_service.get_by_code
get_by_code(code) ==
  LET found == {k \in Kiosks : kiosks[k].code = code}
  IN IF found = {} THEN NoId ELSE CHOOSE k \in found : TRUE

\* a gate that looks only at the row's existence
NotAllowed_ExistsOnly(kid) == kid \notin Kiosks

\* "not kiosk or not kiosk.is_active"
NotAllowed(kid) == kid \notin Kiosks \/ ~kiosks[kid].is_active

\* a gate that only compares: an absent header equals an unset key
InvalidApiKey_CompareOnly(stored, hdr) == stored # hdr

\* "not x_kiosk_api_key or kiosk.api_key != x_kiosk_api_key"
InvalidApiKey(stored, hdr) == hdr = None \/ hdr = "" \/ stored # hdr

\* a handshake that issues a key every time
NeedsApiKey_Always(key) == TRUE

\* "if not kiosk.api_key" of update_handshake
NeedsApiKey(key) == key = None \/ key = ""

Reject(op, kid, status) ==
  /\ resp' = Response([status |-> status])
  /\ UNCHANGED <<db, key_seq, remote_vend, sess, mutlog, now, side>>

\* get_by_id and the two gates every keyed device route starts with
Authenticate(s, op, pc, kid, hdr) ==
  /\ sess[s].pc = "idle"
  /\ IF NotAllowed(kid) THEN Reject(op, kid, 403)
     ELSE IF InvalidApiKey(kiosks[kid].api_key, hdr) THEN Reject(op, kid, 401)
     ELSE /\ sess' = [sess EXCEPT ![s] = [Idle EXCEPT !.pc = pc, !.k = kid,
                                                  !.ver = kiosks[kid].config_version,
                                                  !.key = kiosks[kid].api_key]]
          /\ resp' = NoResp
          /\ UNCHANGED <<db, key_seq, remote_vend, mutlog, now, side>>

\* ---- POST /handshake
HandshakeBegin(s, code) ==
  LET kid == get_by_code(code)
  IN /\ sess[s].pc = "idle"
     /\ IF NotAllowed(kid) THEN Reject("handshake", kid, 403)
        ELSE /\ sess' = [sess EXCEPT ![s] = [Idle EXCEPT !.pc = "hs", !.k = kid,
                                                     !.ver = kiosks[kid].config_version,
                                                     !.key = kiosks[kid].api_key]]
             /\ resp' = NoResp
             /\ UNCHANGED <<db, key_seq, remote_vend, mutlog, now, side>>

\* update_handshake: assign, commit, refresh (the refresh reloads the row and
\* the eagerly loaded screen_images)
generate_api_key == ApiKeyToken[key_seq + 1]

update_handshake(s, device_uuid, app_version, ip) ==
  LET k == sess[s].k
      provision == NeedsApiKey(sess[s].key)
  IN /\ sess[s].pc = "hs"
     /\ provision => key_seq < MaxKeys
     /\ kiosks' = [kiosks EXCEPT ![k].device_uuid = device_uuid,
                                 ![k].app_version = app_version,
                                 ![k].last_ip = ip,
                                 ![k].last_heartbeat_at = now,
                                 ![k].api_key = IF provision THEN generate_api_key ELSE @]
     /\ key_seq' = IF provision THEN key_seq + 1 ELSE key_seq
     /\ sess' = [sess EXCEPT ![s].pc = "hs_build",
                             ![s].ver = kiosks'[k].config_version,
                             ![s].key = kiosks'[k].api_key,
                             ![s].imgs = LoadScreenImages(k)]
     /\ UNCHANGED <<slots, vsp, kiosk_products, screen_images, image_seq, status_logs,
                    remote_vend, resp, mutlog, now, side>>

HandshakeRespond(s) ==
  LET k == sess[s].k
  IN /\ sess[s].pc = "hs_build"
     /\ resp' = Response([op |-> "handshake", k |-> k, status |-> 200,
                          api_key |-> sess[s].key,
                          pairing_code |-> kiosks[k].pair_code_4,
                          config_version |-> sess[s].ver,
                          config |-> build_config(k, sess[s].imgs)])
     /\ Finish(s)
     /\ UNCHANGED <<db, key_seq, remote_vend, mutlog, now, side>>

\* ---- POST /{kiosk_id}/heartbeat
HeartbeatsInFlight == Cardinality({s \in Sessions : sess[s].pc = "hb"})

HeartbeatBegin(s, kid, hdr) ==
  /\ Len(status_logs) + HeartbeatsInFlight < MaxLogs
  /\ Authenticate(s, "heartbeat", "hb", kid, hdr)

\* a decision that also fires on an equal version
HasConfigUpdate_Le(cur, stored) ==
  cur.set /\ cur.v <= (IF stored = 0 THEN 1 ELSE stored)

\* "current_config_version is not None and current_config_version < (config_version or 1)"
HasConfigUpdate(cur, stored) ==
  cur.set /\ cur.v < (IF stored = 0 THEN 1 ELSE stored)

\* a heartbeat that also touches the version column
HeartbeatRow_Bump(row, payload, ip) ==
  [row EXCEPT !.app_version = payload.app_version, !.last_ip = ip,
              !.last_heartbeat_at = now, !.config_version = @ + 1]

\* the columns update_heartbeat assigns on the Kiosk row
HeartbeatRow(row, payload, ip) ==
  [row EXCEPT !.app_version = payload.app_version, !.last_ip = ip,
              !.last_heartbeat_at = now]

\* an update_heartbeat that writes the whole row it read, version included
update_heartbeat_WriteBack(s, payload, ip) ==
  LET k == sess[s].k
      ver == kiosks'[k].config_version
      has == HasConfigUpdate(payload.current_config_version, ver)
  IN /\ sess[s].pc = "hb"
     /\ kiosks' = [kiosks EXCEPT ![k] =
                     [HeartbeatRow(@, payload, ip) EXCEPT !.config_version = sess[s].ver]]
     /\ status_logs' = Append(status_logs,
                              [kiosk_id |-> k, status |-> "ONLINE", payload |-> payload])
     /\ IF has
        THEN /\ sess' = [sess EXCEPT ![s].pc = "hb_build",
                                     ![s].ver = ver,
                                     ![s].cur = payload.current_config_version,
                                     ![s].imgs = LoadScreenImages(k)]
             /\ UNCHANGED resp
        ELSE /\ resp' = Response([op |-> "heartbeat", k |-> k, status |-> 200,
                                  cur |-> payload.current_config_version,
                                  config_version |-> ver,
                                  has_config_update |-> FALSE,
                                  config |-> NoConfig])
             /\ Finish(s)
     /\ UNCHANGED <<slots, vsp, kiosk_products, screen_images, image_seq,
                    key_seq, remote_vend, mutlog, now, side>>

\* update_heartbeat (assign, add log row, commit, refresh) and the decision
update_heartbeat(s, payload, ip) ==
  LET k == sess[s].k
      ver == kiosks'[k].config_version
      has == HasConfigUpdate(payload.current_config_version, ver)
  IN /\ sess[s].pc = "hb"
     /\ kiosks' = [kiosks EXCEPT ![k] = HeartbeatRow(@, payload, ip)]
     /\ status_logs' = Append(status_logs,
                              [kiosk_id |-> k, status |-> "ONLINE", payload |-> payload])
     /\ IF has
        THEN /\ sess' = [sess EXCEPT ![s].pc = "hb_build",
                                     ![s].ver = ver,
                                     ![s].cur = payload.current_config_version,
                                     ![s].imgs = LoadScreenImages(k)]
             /\ UNCHANGED resp
        ELSE /\ resp' = Response([op |-> "heartbeat", k |-> k, status |-> 200,
                                  cur |-> payload.current_config_version,
                                  config_version |-> ver,
                                  has_config_update |-> FALSE,
                                  config |-> NoConfig])
             /\ Finish(s)
     /\ UNCHANGED <<slots, vsp, kiosk_products, screen_images, image_seq,
                    key_seq, remote_vend, mutlog, now, side>>

HeartbeatRespond(s) ==
  LET k == sess[s].k
  IN /\ sess[s].pc = "hb_build"
     /\ resp' = Response([op |-> "heartbeat", k |-> k, status |-> 200,
                          cur |-> sess[s].cur,
                          config_version |-> sess[s].ver,
                          has_config_update |-> TRUE,
                          config |-> build_config(k, sess[s].imgs)])
     /\ Finish(s)
     /\ UNCHANGED <<db, key_seq, remote_vend, mutlog, now, side>>

\* ---- POST /{kiosk_id}/inventory
InventoryBegin(s, kid, hdr) == Authenticate(s, "inventory", "inv", kid, hdr)

\* a set_slot_stock that does not look at the slot's kiosk
set_slot_stock_AnyKiosk(v, kiosk_id, slot_id, current_stock, low_stock_alarm) ==
  IF slot_id \notin SlotIds THEN <<v, FALSE>>
  ELSE IF ~v[slot_id].exists THEN <<v, FALSE>>
  ELSE <<[v EXCEPT ![slot_id].current_stock =
                      IF current_stock < 0 THEN 0 ELSE current_stock,
                   ![slot_id].low_stock_alarm =
                      IF low_stock_alarm # NoAlarm
                      THEN (IF low_stock_alarm < 0 THEN 0 ELSE low_stock_alarm)
                      ELSE @],
         TRUE>>

\* a set_slot_stock that inserts the binding it does not find
set_slot_stock_Upsert(v, kiosk_id, slot_id, current_stock, low_stock_alarm) ==
  IF slot_id \notin SlotIds \/ SlotKiosk[slot_id] # kiosk_id THEN <<v, FALSE>>
  ELSE <<[v EXCEPT ![slot_id] =
             [exists |-> TRUE,
              product_id |-> IF @.exists THEN @.product_id ELSE NoId,
              kiosk_product_id |-> IF @.exists THEN @.kiosk_product_id ELSE NoId,
              current_stock |-> IF current_stock < 0 THEN 0 ELSE current_stock,
              low_stock_alarm |-> IF low_stock_alarm # NoAlarm THEN low_stock_alarm
                                  ELSE IF @.exists THEN @.low_stock_alarm ELSE 0,
              is_active |-> TRUE]],
         TRUE>>

\* set_slot_stock on a table value v: <<new table, ok>>
set_slot_stock(v, kiosk_id, slot_id, current_stock, low_stock_alarm) ==
  IF slot_id \notin SlotIds \/ SlotKiosk[slot_id] # kiosk_id THEN <<v, FALSE>>
  ELSE IF ~v[slot_id].exists THEN <<v, FALSE>>
  ELSE <<[v EXCEPT ![slot_id].current_stock =
                      IF current_stock < 0 THEN 0 ELSE current_stock,
                   ![slot_id].low_stock_alarm =
                      IF low_stock_alarm # NoAlarm
                      THEN (IF low_stock_alarm < 0 THEN 0 ELSE low_stock_alarm)
                      ELSE @],
         TRUE>>

RECURSIVE update_inventory_partial(_, _, _)
update_inventory_partial(v, kiosk_id, items) ==
  IF items = <<>> THEN [table |-> v, updated |-> 0, skipped |-> 0]
  ELSE LET it == Head(items)
           r == set_slot_stock(v, kiosk_id, it.slot_id, it.current_stock,
                               it.low_stock_alarm)
           rest == update_inventory_partial(r[1], kiosk_id, Tail(items))
       IN [table |-> rest.table,
           updated |-> rest.updated + (IF r[2] THEN 1 ELSE 0),
           skipped |-> rest.skipped + (IF r[2] THEN 0 ELSE 1)]

\* payload_map = {i["slot_id"]: i for i in items}: the last item of a slot wins
PayloadMap(items, slot_id) ==
  LET idx == {i \in 1..Len(items) : items[i].slot_id = slot_id}
  IN IF idx = {} THEN [found |-> FALSE] ELSE [found |-> TRUE, item |-> items[Max(idx)]]

\* a replace that leaves the slots the list does not name as they are
update_inventory_replace_KeepUnlisted(v, kiosk_id, items) ==
  LET rows == {sl \in SlotIds : SlotKiosk[sl] = kiosk_id}
      linked == {sl \in rows : v[sl].exists}
      Row(sl) ==
        LET payload == PayloadMap(items, sl)
        IN IF payload.found
           THEN [v[sl] EXCEPT
                   !.current_stock = IF payload.item.current_stock < 0 THEN 0
                                     ELSE payload.item.current_stock,
                   !.low_stock_alarm = IF payload.item.low_stock_alarm # NoAlarm
                                       THEN (IF payload.item.low_stock_alarm < 0 THEN 0
                                             ELSE payload.item.low_stock_alarm)
                                       ELSE @]
           ELSE v[sl]
  IN [table |-> [sl \in SlotIds |-> IF sl \in linked THEN Row(sl) ELSE v[sl]],
      updated |-> Cardinality(linked),
      skipped |-> Cardinality(rows \ linked)]

update_inventory_replace(v, kiosk_id, items) ==
  LET rows == {sl \in SlotIds : SlotKiosk[sl] = kiosk_id}
      linked == {sl \in rows : v[sl].exists}
      Row(sl) ==
        LET payload == PayloadMap(items, sl)
        IN IF payload.found
           THEN [v[sl] EXCEPT
                   !.current_stock = IF payload.item.current_stock < 0 THEN 0
                                     ELSE payload.item.current_stock,
                   !.low_stock_alarm = IF payload.item.low_stock_alarm # NoAlarm
                                       THEN (IF payload.item.low_stock_alarm < 0 THEN 0
                                             ELSE payload.item.low_stock_alarm)
                                       ELSE @]
           ELSE [v[sl] EXCEPT !.current_stock = 0]
  IN [table |-> [sl \in SlotIds |-> IF sl \in linked THEN Row(sl) ELSE v[sl]],
      updated |-> Cardinality(linked),
      skipped |-> Cardinality(rows \ linked)]

kiosk_inventory_update(s, mode, items) ==
  LET k == sess[s].k
      r == IF mode = "replace" THEN update_inventory_replace(vsp, k, items)
           ELSE update_inventory_partial(vsp, k, items)
  IN /\ sess[s].pc = "inv"
     /\ vsp' = r.table
     /\ resp' = Response([op |-> "inventory", k |-> k, status |-> 200,
                          updated |-> r.updated,
                          skipped |-> r.skipped, mode |-> mode])
     /\ Finish(s)
     /\ UNCHANGED <<kiosks, slots, kiosk_products, screen_images, image_seq,
                    status_logs, key_seq, remote_vend, mutlog, now, side>>

\* update_inventory_replace, step 1: the select loads the kiosk's slots with
\* their VendingSlotProduct objects into the handler's session
ReplaceRead(s) ==
  LET k == sess[s].k
      linked == {sl \in SlotIds : SlotKiosk[sl] = k /\ vsp[sl].exists}
  IN /\ sess[s].pc = "inv"
     /\ sess' = [sess EXCEPT ![s].pc = "inv_replace",
                             ![s].rows = [sl \in linked |-> vsp[sl]]]
     /\ UNCHANGED <<db, key_seq, remote_vend, resp, mutlog, now, side>>

\* update_inventory_replace, step 2: the loop assigns to the loaded objects
\* and db.commit() flushes one UPDATE per object, by primary key, of the
\* columns whose value differs from the loaded one; an UPDATE that matches
\* no row (the binding was deleted meanwhile) raises and rolls back
ReplaceCommit(s, items) ==
  LET k == sess[s].k
      loaded == sess[s].rows
      Stock(sl) ==
        LET payload == PayloadMap(items, sl)
        IN IF payload.found
           THEN (IF payload.item.current_stock < 0 THEN 0 ELSE payload.item.current_stock)
           ELSE 0
      Alarm(sl) ==
        LET payload == PayloadMap(items, sl)
        IN IF payload.found /\ payload.item.low_stock_alarm # NoAlarm
           THEN (IF payload.item.low_stock_alarm < 0 THEN 0 ELSE payload.item.low_stock_alarm)
           ELSE loaded[sl].low_stock_alarm
      DirtyStock(sl) == Stock(sl) # loaded[sl].current_stock
      DirtyAlarm(sl) == Alarm(sl) # loaded[sl].low_stock_alarm
      stale == \E sl \in DOMAIN loaded :
                  (DirtyStock(sl) \/ DirtyAlarm(sl)) /\ ~vsp[sl].exists
  IN /\ sess[s].pc = "inv_replace"
     /\ IF stale
        THEN /\ UNCHANGED vsp
             /\ resp' = Response([op |-> "inventory", k |-> k, status |-> 500])
        ELSE /\ vsp' = [sl \in SlotIds |->
                          IF sl \in DOMAIN loaded /\ vsp[sl].exists
                          THEN [vsp[sl] EXCEPT
                                  !.current_stock = IF DirtyStock(sl) THEN Stock(sl) ELSE @,
                                  !.low_stock_alarm = IF DirtyAlarm(sl) THEN Alarm(sl) ELSE @]
                          ELSE vsp[sl]]
             /\ resp' = Response([op |-> "inventory", k |-> k, status |-> 200,
                                  updated |-> Cardinality(DOMAIN loaded),
                                  skipped |-> Cardinality({sl \in SlotIds : SlotKiosk[sl] = k}
                                                            \ DOMAIN loaded),
                                  mode |-> "replace"])
     /\ Finish(s)
     /\ UNCHANGED <<kiosks, slots, kiosk_products, screen_images, image_seq,
                    status_logs, key_seq, remote_vend, mutlog, now, side>>

\* ---- GET /{kiosk_id}/inventory
get_inventory_snapshot(kiosk_id) ==
  LET linked == {sl \in SlotIds : SlotKiosk[sl] = kiosk_id /\ vsp[sl].exists}
  IN [sl \in linked |-> [slot_id |-> sl, current_stock |-> vsp[sl].current_stock,
                         low_stock_alarm |-> vsp[sl].low_stock_alarm]]

get_kiosk_inventory(kid, hdr) ==
  IF NotAllowed(kid) THEN Reject("get_inventory", kid, 403)
  ELSE /\ resp' = Response([op |-> "get_inventory", k |-> kid, status |-> 200,
                            items |-> get_inventory_snapshot(kid)])
       /\ UNCHANGED <<db, key_seq, remote_vend, sess, mutlog, now, side>>

\* ---- POST /{kiosk_id}/remote-ping and the mailbox it polls
set_remote_vend_slot(kid, slot_id) ==
  /\ kid \in Kiosks
  /\ remote_vend' = [remote_vend EXCEPT ![kid] = slot_id]
  /\ UNCHANGED <<db, key_seq, sess, resp, mutlog, now, side>>

pop_remote_vend_slot(kid) == [remote_vend EXCEPT ![kid] = NoId]

\* a ping that reads the mailbox and leaves the request in it
kiosk_remote_ping_Peek(kid, hdr) ==
  IF NotAllowed(kid) THEN Reject("remote_ping", kid, 403)
  ELSE IF InvalidApiKey(kiosks[kid].api_key, hdr) THEN Reject("remote_ping", kid, 401)
  ELSE /\ resp' = Response([op |-> "remote_ping", k |-> kid, status |-> 200,
                            remote_vend_slot_id |-> remote_vend[kid]])
       /\ UNCHANGED <<db, key_seq, remote_vend, sess, mutlog, now, side>>

kiosk_remote_ping(kid, hdr) ==
  IF NotAllowed(kid) THEN Reject("remote_ping", kid, 403)
  ELSE IF InvalidApiKey(kiosks[kid].api_key, hdr) THEN Reject("remote_ping", kid, 401)
  ELSE /\ remote_vend' = pop_remote_vend_slot(kid)
       /\ resp' = Response([op |-> "remote_ping", k |-> kid, status |-> 200,
                            remote_vend_slot_id |-> remote_vend[kid]])
       /\ UNCHANGED <<db, key_seq, sess, mutlog, now, side>>

Tick ==
  /\ now < MaxTime
  /\ now' = now + 1
  /\ UNCHANGED <<db, key_seq, remote_vend, sess, resp, mutlog, side>>

\* heartbeat payloads a device sends
Payloads ==
  { [device_uuid |-> d, app_version |-> a, board_connected |-> TRUE, errors |-> <<>>,
     current_config_version |-> c] : d \in DeviceUuids, a \in AppVersions, c \in CurChoices }

\* inventory item lists a device sends
ItemLists ==
  { <<>>,
    << [slot_id |-> 1, current_stock |-> 2, low_stock_alarm |-> NoAlarm] >>,
    << [slot_id |-> 2, current_stock |-> 4, low_stock_alarm |-> 2],
       [slot_id |-> 3, current_stock |-> 1, low_stock_alarm |-> NoAlarm] >> }

Item(slot_id, current_stock, low_stock_alarm) ==
  [slot_id |-> slot_id, current_stock |-> current_stock, low_stock_alarm |-> low_stock_alarm]

\* more item lists: two own slots, an own and an unknown slot, one slot twice
MoreItemLists ==
  ItemLists \cup
  { << Item(1, 4, 2), Item(2, 2, NoAlarm) >>,
    << Item(4, 2, NoAlarm), Item(5, 4, 2) >>,
    << Item(1, 4, 2), Item(1, 2, NoAlarm) >> }

OnePayload == {p \in Payloads : p.current_config_version = Cur(1)}

HandshakeStep(s) ==
  \/ \E d \in DeviceUuids, a \in AppVersions, ip \in ClientIps :
        update_handshake(s, d, a, ip)
  \/ HandshakeRespond(s)

HeartbeatStep(s, payloads) ==
  \/ \E p \in payloads, ip \in ClientIps : update_heartbeat(s, p, ip)
  \/ HeartbeatRespond(s)

InventoryStep(s, lists) ==
  \E m \in {"partial", "replace"}, items \in lists : kiosk_inventory_update(s, m, items)

(***************************** QR / SMS sessions ****************************)
\* one model time unit is 300 s; created_at and sms_sent_at are written and
\* read by no handler but to order rows, which created_at orders as their ids do
QrSession(kiosk_id, t, ttl_sec) ==
  [kiosk_id |-> kiosk_id, status |-> "PENDING",
   expires_at |-> t + ttl_sec, verified_at |-> NoTime, user_id |-> NoId,
   phone_number |-> <<>>, sms_code |-> <<>>]

\* db.get(QrAuthSession, session_id): the row's position, NoId if there is none
get_session_by_id(session_id) ==
  IF session_id \in 1..Len(qr_auth_sessions) THEN session_id ELSE NoId

\* a touch_expired that already expires a session at its expires_at
touch_expired_AtExpiry(session, t) ==
  IF session.status = "PENDING" /\ session.expires_at <= t
  THEN [session EXCEPT !.status = "EXPIRED"]
  ELSE session

\* the row touch_expired leaves (committed when it differs)
touch_expired(session, t) ==
  IF session.status = "PENDING" /\ session.expires_at < t
  THEN [session EXCEPT !.status = "EXPIRED"]
  ELSE session

\* the service calls below give the row they commit and the ValueError they
\* raise (None when they return)
set_session_verified(session, t, user_id) ==
  IF session.expires_at < t
  THEN [row |-> [session EXCEPT !.status = "EXPIRED"], error |-> "Session expired"]
  ELSE [row |-> [session EXCEPT !.status = "VERIFIED",
                                !.verified_at = t,
                                !.user_id = IF user_id # NoId THEN user_id ELSE @],
        error |-> None]

\* a send that stores the code and leaves expires_at as it is
send_phone_auth_code_NoRearm(session, t, phone_number, code, ttl_sec) ==
  IF session.expires_at < t \/ session.status # "PENDING"
  THEN [row |-> touch_expired(session, t), error |-> "Session is not valid"]
  ELSE [row |-> [session EXCEPT !.phone_number = phone_number,
                                !.sms_code = code],
        error |-> None]

send_phone_auth_code(session, t, phone_number, code, ttl_sec) ==
  IF session.expires_at < t \/ session.status # "PENDING"
  THEN [row |-> touch_expired(session, t), error |-> "Session is not valid"]
  ELSE [row |-> [session EXCEPT !.phone_number = phone_number,
                                !.sms_code = code,
                                !.expires_at = t + ttl_sec],
        error |-> None]

\* a verify that compares the code before it looks at the expiry time
verify_phone_auth_code_CodeFirst(session, t, input_code) ==
  IF session.sms_code = <<>> \/ session.phone_number = <<>>
  THEN [row |-> session, error |-> "No auth code sent for this session"]
  ELSE IF session.sms_code # input_code
  THEN [row |-> session, error |-> "code mismatch"]
  ELSE IF session.expires_at < t
  THEN [row |-> session, error |-> "Session expired"]
  ELSE [row |-> [session EXCEPT !.status = "VERIFIED", !.verified_at = t],
        error |-> None]

\* a verify that accepts whatever is typed once a code was sent
verify_phone_auth_code_AnyCode(session, t, input_code) ==
  IF session.expires_at < t
  THEN [row |-> [session EXCEPT !.status = "EXPIRED"], error |-> "Session expired"]
  ELSE IF session.sms_code = <<>> \/ session.phone_number = <<>>
  THEN [row |-> session, error |-> "No auth code sent for this session"]
  ELSE [row |-> [session EXCEPT !.status = "VERIFIED", !.verified_at = t],
        error |-> None]

verify_phone_auth_code(session, t, input_code) ==
  IF session.expires_at < t
  THEN [row |-> [session EXCEPT !.status = "EXPIRED"], error |-> "Session expired"]
  ELSE IF session.sms_code = <<>> \/ session.phone_number = <<>>
  THEN [row |-> session, error |-> "No auth code sent for this session"]
  ELSE IF session.sms_code # input_code
  THEN [row |-> session, error |-> "code mismatch"]
  ELSE [row |-> [session EXCEPT !.status = "VERIFIED", !.verified_at = t],
        error |-> None]

\* phone.strip().replace("-", "")
NormalizePhone(phone) == SelectSeq(Strip(phone), LAMBDA c : c # "-")

\* phone.startswith("010") and len(phone) in (10, 11)
ValidPhone(phone) ==
  /\ Len(phone) \in {10, 11}
  /\ SubSeq(phone, 1, 3) = <<"0", "1", "0">>

QrFrame ==
  UNCHANGED <<db, key_seq, remote_vend, sess, mutlog, now, new_kiosks, create_req, device>>

\* ---- POST /api/qr-auth/session
create_qr_auth_session(kiosk_id, ttl_sec) ==
  /\ Len(qr_auth_sessions) < MaxSessions
  /\ IF kiosk_id \notin Kiosks
     THEN /\ resp' = Response([op |-> "qr_create", status |-> 400,
                               detail |-> "Kiosk not found"])
          /\ UNCHANGED qr_auth_sessions
     ELSE IF kiosks[kiosk_id].pair_code_4 \in {None, ""}
     THEN /\ resp' = Response([op |-> "qr_create", status |-> 400,
                               detail |-> "Kiosk has no pair_code_4 assigned"])
          /\ UNCHANGED qr_auth_sessions
     ELSE /\ qr_auth_sessions' = Append(qr_auth_sessions, QrSession(kiosk_id, now, ttl_sec))
          /\ resp' = Response([op |-> "qr_create", status |-> 200,
                               session_id |-> Len(qr_auth_sessions) + 1,
                               pairing_code |-> kiosks[kiosk_id].pair_code_4,
                               expires_at |-> now + ttl_sec])
  /\ QrFrame

\* ---- GET /api/qr-auth/session/{session_id}/status
get_qr_auth_session_status(session_id) ==
  /\ IF get_session_by_id(session_id) = NoId
     THEN /\ resp' = Response([op |-> "qr_status", status |-> 404,
                               detail |-> "Session not found"])
          /\ UNCHANGED qr_auth_sessions
     ELSE LET session == touch_expired(qr_auth_sessions[session_id], now)
          IN /\ qr_auth_sessions' = [qr_auth_sessions EXCEPT ![session_id] = session]
             /\ resp' = Response([op |-> "qr_status", status |-> 200,
                                  session_status |-> session.status,
                                  expires_at |-> session.expires_at,
                                  verified_at |-> session.verified_at])
  /\ QrFrame

\* a service call's outcome as the routes answer it: 400 with str(e), else ok
QrAnswer(op, session_id, r, ok_status, typed) ==
  /\ qr_auth_sessions' = [qr_auth_sessions EXCEPT ![session_id] = r.row]
  /\ resp' = Response([op |-> op,
                       status |-> IF r.error = None THEN ok_status ELSE 400,
                       detail |-> r.error, auth_code |-> typed])

QrNotFound(op, session_id) ==
  /\ resp' = Response([op |-> op, status |-> 400,
                       detail |-> "Session not found"])
  /\ UNCHANGED qr_auth_sessions

\* ---- POST /api/qr-auth/session/{session_id}/complete
complete_qr_auth_session(session_id, user_id) ==
  /\ IF get_session_by_id(session_id) = NoId
     THEN QrNotFound("qr_complete", session_id)
     ELSE QrAnswer("qr_complete", session_id,
                   set_session_verified(qr_auth_sessions[session_id], now, user_id), 200,
                   <<>>)
  /\ QrFrame

\* ---- POST /qr-auth/send-code; sms_ok: the SMS gateway took the message
qr_auth_send_code(session_id, phone, sms_ok) ==
  /\ LET phone_number == NormalizePhone(phone)
     IN IF ~ValidPhone(phone_number)
        THEN /\ resp' = Response([op |-> "qr_send",
                                  status |-> 400, detail |-> "phone number"])
             /\ UNCHANGED qr_auth_sessions
        ELSE IF get_session_by_id(session_id) = NoId
        THEN QrNotFound("qr_send", session_id)
        ELSE \E code \in AuthCodes :
               QrAnswer("qr_send", session_id,
                        send_phone_auth_code(qr_auth_sessions[session_id], now,
                                             phone_number, code, DefaultTtl),
                        IF sms_ok THEN 200 ELSE 500, <<>>)
  /\ QrFrame

\* ---- POST /qr-auth/complete
qr_auth_complete_from_web(session_id, auth_code) ==
  /\ IF get_session_by_id(session_id) = NoId
     THEN QrNotFound("qr_verify", session_id)
     ELSE QrAnswer("qr_verify", session_id,
                   verify_phone_auth_code(qr_auth_sessions[session_id], now,
                                          Strip(auth_code)), 200, auth_code)
  /\ QrFrame

\* codes typed into the /qr-auth form, already stripped: two kiosks' codes, a
\* code of no kiosk, and one that is not four digits
PairInputs == {"0001", "0002", "9999", "12"}

\* len(code) == 4 and code.isdigit()
IsFourDigits(code) == code \in {"0001", "0002", "9999"}

\* find_latest_pending_session_by_pair_code: the newest PENDING row of a kiosk
\* with the code (created_at orders the rows as their ids do), passed through
\* touch_expired and returned as touch_expired leaves it
find_latest_pending_session_by_pair_code(pair_code_4, t) ==
  LET found == {i \in 1..Len(qr_auth_sessions) :
                  /\ qr_auth_sessions[i].kiosk_id \in Kiosks
                  /\ kiosks[qr_auth_sessions[i].kiosk_id].pair_code_4 = pair_code_4
                  /\ qr_auth_sessions[i].status = "PENDING"}
      latest == Max(found)
  IN IF found = {} THEN [id |-> NoId]
     ELSE [id |-> latest, row |-> touch_expired(qr_auth_sessions[latest], t)]

\* ---- POST /qr-auth: the pair code form; "if not session" answers 400, any
\* session the lookup returns is handed to the verify page
qr_auth_code_submit(code) ==
  /\ IF ~IsFourDigits(code)
     THEN /\ resp' = Response([op |-> "qr_code", status |-> 400,
                               detail |-> "four digits wanted"])
          /\ UNCHANGED qr_auth_sessions
     ELSE LET r == find_latest_pending_session_by_pair_code(code, now)
          IN IF r.id = NoId
             THEN /\ resp' = Response([op |-> "qr_code", status |-> 400,
                                       detail |-> "no request in progress"])
                  /\ UNCHANGED qr_auth_sessions
             ELSE /\ qr_auth_sessions' = [qr_auth_sessions EXCEPT ![r.id] = r.row]
                  /\ resp' = Response([op |-> "qr_code", status |-> 200,
                                       pairing_code |-> code, session_id |-> r.id])
  /\ QrFrame

\* the clock of the session flow
Elapse ==
  /\ now < MaxQrTime
  /\ now' = now + 1
  /\ UNCHANGED <<db, key_seq, remote_vend, sess, resp, mutlog, side>>

(***************************** kiosk creation *******************************)
\* select(Kiosk.id).where(Kiosk.pair_code_4 == code) finds nothing, whatever
\* the table holds
PairCodeExists_Never(code) == FALSE

\* select(Kiosk.id).where(Kiosk.pair_code_4 == code)
PairCodeExists(code) ==
  \/ \E k \in Kiosks : kiosks[k].pair_code_4 = code
  \/ \E i \in 1..Len(new_kiosks) : new_kiosks[i].pair_code_4 = code

\* select(Kiosk).where(Kiosk.code == code)
KioskCodeExists(code) ==
  \/ \E k \in Kiosks : kiosks[k].code = code
  \/ \E i \in 1..Len(new_kiosks) : new_kiosks[i].code = code

\* ---- POST /kiosks/new by an admin, up to the call of the code generator
kiosk_create(code, with_key) ==
  /\ create_req.pc = "idle"
  /\ IF KioskCodeExists(code)
     THEN /\ resp' = Response([op |-> "kiosk_create", status |-> 400])
          /\ UNCHANGED create_req
     ELSE /\ create_req' = [pc |-> "gen", attempts |-> 0, code |-> code,
                            generate_api_key |-> with_key]
          /\ resp' = NoResp
  /\ UNCHANGED <<db, key_seq, remote_vend, sess, mutlog, now, qr_auth_sessions,
                 new_kiosks, device>>

\* the Kiosk row kiosk_create adds, its 8 x 10 slots and its default image
NewKiosk(code, pair_code_4, api_key) ==
  [id |-> Cardinality(Kiosks) + Len(new_kiosks) + 1, code |-> code,
   is_active |-> TRUE, api_key |-> api_key, pair_code_4 |-> pair_code_4,
   config_version |-> DefaultConfigVersion,
   slots |-> TOTAL_ROWS * TOTAL_COLS,
   screen_images |-> <<DefaultScreensaverUrl>>]

\* one turn of the loop of generate_unique_pair_code_4; a code that is free
\* is returned and the rest of kiosk_create runs with it
generate_unique_pair_code_4 ==
  /\ create_req.pc = "gen"
  /\ IF create_req.attempts = MaxAttempts
     THEN /\ resp' = Response([op |-> "kiosk_create", status |-> 500])
          /\ create_req' = NoCreate
          /\ UNCHANGED <<new_kiosks, key_seq>>
     ELSE \E n \in 0..MaxPairCode :
            LET code == Format04[n]
            IN IF PairCodeExists(code)
               THEN /\ create_req' = [create_req EXCEPT !.attempts = @ + 1]
                    /\ UNCHANGED <<new_kiosks, key_seq, resp>>
               ELSE /\ IF create_req.generate_api_key
                       THEN /\ key_seq < MaxKeys
                            /\ key_seq' = key_seq + 1
                       ELSE UNCHANGED key_seq
                    /\ new_kiosks' =
                         Append(new_kiosks,
                                NewKiosk(create_req.code, code,
                                         IF create_req.generate_api_key
                                         THEN ApiKeyToken[key_seq + 1] ELSE None))
                    /\ resp' = Response([op |-> "kiosk_create", status |-> 303,
                                         pairing_code |-> code])
                    /\ create_req' = NoCreate
  /\ UNCHANGED <<db, remote_vend, sess, mutlog, now, qr_auth_sessions, device>>

(***************************** polling device *******************************)
\* the heartbeat the device of kiosk 1 sends: it carries the version it holds
PollPayload ==
  [device_uuid |-> CHOOSE d \in DeviceUuids : TRUE,
   app_version |-> CHOOSE a \in AppVersions : TRUE,
   board_connected |-> TRUE, errors |-> <<>>,
   current_config_version |-> device.version]

\* the device stores the version and config of its handshake response
DeviceReceiveHandshake ==
  /\ ~device.version.set
  /\ resp.op = "handshake" /\ resp.status = 200
  /\ device' = [version |-> Cur(resp.config_version), config |-> resp.config,
                seen |-> Len(status_logs)]
  /\ UNCHANGED <<db, key_seq, remote_vend, sess, resp, mutlog, now,
                 qr_auth_sessions, new_kiosks, create_req>>

\* the device reads a heartbeat response once and adopts version and config
\* when has_config_update is true
DeviceReceiveHeartbeat ==
  /\ device.version.set
  /\ resp.op = "heartbeat" /\ resp.status = 200
  /\ device.seen < Len(status_logs)
  /\ device' = [version |-> IF resp.has_config_update THEN Cur(resp.config_version)
                            ELSE device.version,
                config |-> IF resp.has_config_update THEN resp.config
                           ELSE device.config,
                seen |-> Len(status_logs)]
  /\ UNCHANGED <<db, key_seq, remote_vend, sess, resp, mutlog, now,
                 qr_auth_sessions, new_kiosks, create_req>>

\* the device pairs once, then polls: one request at a time over session 1
DeviceStep ==
  \/ /\ ~device.version.set
     /\ resp.op # "handshake"
     /\ HandshakeBegin(1, "K1")
  \/ HandshakeStep(1)
  \/ DeviceReceiveHandshake
  \/ /\ device.version.set
     /\ device.seen = Len(status_logs)
     /\ HeartbeatBegin(1, 1, "key1")
  \/ HeartbeatStep(1, {PollPayload})
  \/ DeviceReceiveHeartbeat

(***************************** next-state relations *************************)
\* what the admin submits: every request value, and a reduced set
AdminInputs ==
  [slots |-> SlotRequestIds, products |-> ProductRequestIds, forms |-> AssignForms,
   edits |-> EditForms, urls |-> UploadUrls]

FewAdminInputs ==
  [slots |-> {1}, products |-> {1}, forms |-> {CHOOSE f \in AssignForms : f.current_stock > 0},
   edits |-> {CHOOSE f \in EditForms : f.product_image}, urls |-> UploadUrls]

AdminCommit(s, in) ==
  \/ \E sl \in in.slots, p \in in.products, f \in in.forms :
        kiosk_slot_assign(s, sl, p, f)
  \/ \E sl \in in.slots, p \in in.products, f \in in.forms :
        kiosk_slot_assign_json(s, sl, p, f)
  \/ \E sl \in in.slots : kiosk_slot_clear(s, sl)
  \/ \E u \in in.urls : kiosk_screensaver_upload(s, u)
  \/ \E i \in 1..(image_seq + 1) : kiosk_screensaver_delete(s, i)
  \/ \E i \in 1..(Len(kiosk_products) + 1), f \in in.edits, u \in in.urls :
        kiosk_product_edit_submit(s, i, f, u)
  \/ bump_config_version(s)

SlotsOf(K) == {sl \in SlotIds : SlotKiosk[sl] \in K}

\* service functions called on slots / snapshots of the kiosks in K
ServiceCalls(K) ==
  \/ \E sl \in SlotsOf(K), p \in ProductIds, f \in AssignForms : upsert_slot_product(sl, p, f)
  \/ \E i \in 1..(Len(kiosk_products) + 1) : fill_kiosk_product_i18n(i)

(* Admin routes and service calls on one kiosk, run one after another. *)
NextAdmin ==
  \/ AllIdle /\ EnsureKioskAccess(1, 1)
  \/ AdminCommit(1, AdminInputs)
  \/ ServiceCalls({1})

SpecAdmin == Init /\ [][NextAdmin]_vars

(* Every device entry point with every header value, and admin routes; every
   handler runs to its end before the next one starts. *)
NextGate ==
  \/ AllIdle /\ \E c \in KioskCodes : HandshakeBegin(1, c)
  \/ AllIdle /\ \E kid \in KioskIds, h \in HeaderKeys : HeartbeatBegin(1, kid, h)
  \/ AllIdle /\ \E kid \in KioskIds, h \in HeaderKeys : InventoryBegin(1, kid, h)
  \/ HandshakeStep(1)
  \/ HeartbeatStep(1, OnePayload)
  \/ InventoryStep(1, ItemLists)
  \/ AllIdle /\ \E kid \in KioskIds, h \in HeaderKeys : get_kiosk_inventory(kid, h)
  \/ AllIdle /\ \E kid \in KioskIds, h \in HeaderKeys : kiosk_remote_ping(kid, h)
  \/ AllIdle /\ set_remote_vend_slot(1, 1)
  \/ AllIdle /\ EnsureKioskAccess(1, 1)
  \/ AdminCommit(1, FewAdminInputs)

SpecGate == Init /\ [][NextGate]_vars

(* Handshakes and heartbeats with every payload, the clock, and admin routes;
   every handler runs to its end before the next one starts. *)
NextHeartbeat ==
  \/ AllIdle /\ HandshakeBegin(1, "K1")
  \/ AllIdle /\ \E kid \in KioskIds, h \in HeaderKeys : HeartbeatBegin(1, kid, h)
  \/ HandshakeStep(1)
  \/ HeartbeatStep(1, Payloads)
  \/ AllIdle /\ EnsureKioskAccess(1, 1)
  \/ AdminCommit(1, FewAdminInputs)
  \/ Tick

SpecHeartbeat == Init /\ [][NextHeartbeat]_vars

(* Inventory updates of kiosk 1 in both modes over bindings the admin makes
   and clears on both kiosks; every handler runs to its end. *)
BindingCommit(s) ==
  \/ \E sl \in SlotIds, f \in FewAdminInputs.forms : kiosk_slot_assign(s, sl, 1, f)
  \/ \E sl \in SlotIds : kiosk_slot_clear(s, sl)

NextInventory ==
  \/ AllIdle /\ HandshakeBegin(1, "K1")
  \/ HandshakeStep(1)
  \/ AllIdle /\ InventoryBegin(1, 1, "key1")
  \/ InventoryStep(1, MoreItemLists)
  \/ AllIdle /\ \E k \in Kiosks : EnsureKioskAccess(1, k)
  \/ BindingCommit(1)

SpecInventory == Init /\ [][NextInventory]_vars

(* The remote-vend mailbox: targets set for both kiosks, pings with every
   header value. *)
NextMailbox ==
  \/ AllIdle /\ HandshakeBegin(1, "K1")
  \/ HandshakeStep(1)
  \/ AllIdle /\ \E k \in Kiosks : \E sl \in SlotsOf({k}) : set_remote_vend_slot(k, sl)
  \/ AllIdle /\ \E kid \in KioskIds, h \in HeaderKeys : kiosk_remote_ping(kid, h)

SpecMailbox == Init /\ [][NextMailbox]_vars

(* Handlers of kiosk 1 interleaved: two requests in flight at a time. *)
RaceCommit(s) ==
  \/ \E f \in FewAdminInputs.forms : kiosk_slot_assign(s, 1, 1, f)
  \/ kiosk_slot_clear(s, 1)
  \/ \E u \in UploadUrls : kiosk_screensaver_upload(s, u)
  \/ bump_config_version(s)

NextRace ==
  \/ \E s \in Sessions : EnsureKioskAccess(s, 1)
  \/ \E s \in Sessions : RaceCommit(s)
  \/ \E s \in Sessions : HandshakeBegin(s, "K1")
  \/ \E s \in Sessions : HeartbeatBegin(s, 1, "key1")
  \/ \E s \in Sessions : HandshakeStep(s)
  \/ \E s \in Sessions : HeartbeatStep(s, OnePayload)

Spec == Init /\ [][NextRace]_vars

(* The QR / SMS session flow of kiosk 1 under a clock; every handler runs to
   its end. *)
NextQr ==
  \/ \E kiosk_id \in {1, 3}, ttl_sec \in TtlSecs : create_qr_auth_session(kiosk_id, ttl_sec)
  \/ \E session_id \in QrIds : get_qr_auth_session_status(session_id)
  \/ \E session_id \in QrIds, user_id \in UserIds : complete_qr_auth_session(session_id, user_id)
  \/ \E session_id \in QrIds, phone \in Phones, sms_ok \in BOOLEAN :
       qr_auth_send_code(session_id, phone, sms_ok)
  \/ \E session_id \in QrIds, auth_code \in AuthInputs :
       qr_auth_complete_from_web(session_id, auth_code)
  \/ Elapse

SpecQr == Init /\ [][NextQr]_vars

(* Kiosk creations by an admin, one after another. *)
NextCreate ==
  \/ \E code \in NewKioskCodes, with_key \in BOOLEAN : kiosk_create(code, with_key)
  \/ generate_unique_pair_code_4

SpecCreate == Init /\ [][NextCreate]_vars

\* the form one admin submits on either kiosk
IsolationInputs ==
  [slots |-> SlotRequestIds, products |-> ProductIds,
   forms |-> {CHOOSE f \in AssignForms : f.current_stock > 0},
   edits |-> {CHOOSE f \in EditForms : f.product_image},
   urls |-> {CHOOSE u \in UploadUrls : TRUE}]

(* Slot assignments and kiosk-product edits by admins of both kiosks, run one
   after another; every request may name a slot or a snapshot of the other
   kiosk. *)
NextIsolation ==
  \/ AllIdle /\ \E k \in Kiosks : EnsureKioskAccess(1, k)
  \/ \E sl \in IsolationInputs.slots, p \in IsolationInputs.products,
        f \in IsolationInputs.forms : kiosk_slot_assign(1, sl, p, f)
  \/ \E sl \in IsolationInputs.slots, p \in IsolationInputs.products,
        f \in IsolationInputs.forms : kiosk_slot_assign_json(1, sl, p, f)
  \/ \E i \in 1..(Len(kiosk_products) + 1), f \in IsolationInputs.edits,
        u \in IsolationInputs.urls : kiosk_product_edit_submit(1, i, f, u)

SpecIsolation == Init /\ [][NextIsolation]_vars

\* what the admin of kiosk 1 submits while its config is being read
ConfigInputs ==
  [slots |-> {1, 4}, products |-> {1}, forms |-> {CHOOSE f \in AssignForms : f.current_stock > 0},
   edits |-> {CHOOSE f \in EditForms : f.product_image}, urls |-> UploadUrls]

(* Admin routes on kiosk 1 run one after another, with build_config called on
   the committed data in between. *)
NextConfig ==
  \/ AllIdle /\ EnsureKioskAccess(1, 1)
  \/ AdminCommit(1, ConfigInputs)
  \/ \E k \in Kiosks : BuildConfigCall(k)

SpecConfig == Init /\ [][NextConfig]_vars

\* replace lists of the device: one names slot 1, one names no slot
ReplaceLists == { <<>>, << Item(1, 4, 2) >> }

\* a replace of session s holds a loaded binding of the slot that is gone
LoadedAndCleared(sl) ==
  \E s \in Sessions : /\ sess[s].pc = "inv_replace"
                      /\ sl \in DOMAIN sess[s].rows
                      /\ ~vsp[sl].exists

(* The device of kiosk 1 (session 1) sends replace updates while an admin of
   kiosk 1 (session 2) assigns and clears slots 1 and 2; the steps of the two
   interleave freely. A binding is not created anew on a slot whose earlier
   binding a running replace still holds: the rows carry no primary key that
   would tell the two apart. *)
NextReplaceRace ==
  \/ sess[2].pc = "idle" /\ HandshakeBegin(1, "K1")
  \/ HandshakeStep(1)
  \/ InventoryBegin(1, 1, "key1")
  \/ ReplaceRead(1)
  \/ \E items \in ReplaceLists : ReplaceCommit(1, items)
  \/ EnsureKioskAccess(2, 1)
  \/ \E sl \in {1, 2}, p \in ProductIds, f \in AssignForms :
        ~LoadedAndCleared(sl) /\ kiosk_slot_assign(2, sl, p, f)
  \/ \E sl \in {1, 2} : kiosk_slot_clear(2, sl)

SpecReplaceRace == Init /\ [][NextReplaceRace]_vars

\* slots (one of them of kiosk 2), products and forms of the snapshot runs
SnapshotInputs ==
  [slots |-> {1, 2, 3}, products |-> ProductIds, forms |-> AssignForms,
   edits |-> {CHOOSE f \in EditForms : f.product_image},
   urls |-> {CHOOSE u \in UploadUrls : TRUE}]

(* Slot assignments (form and JSON), slot clears and kiosk-product edits on
   kiosk 1, run one after another, one mutation more than MaxVersion allows. *)
NextSnapshot ==
  \/ AllIdle /\ EnsureKioskAccessWithin(1, 1, MaxVersion + 1)
  \/ \E sl \in SnapshotInputs.slots, p \in SnapshotInputs.products,
        f \in SnapshotInputs.forms : kiosk_slot_assign(1, sl, p, f)
  \/ \E sl \in SnapshotInputs.slots, p \in SnapshotInputs.products,
        f \in SnapshotInputs.forms : kiosk_slot_assign_json(1, sl, p, f)
  \/ \E sl \in SnapshotInputs.slots : kiosk_slot_clear(1, sl)
  \/ \E i \in 1..(Len(kiosk_products) + 1), f \in SnapshotInputs.edits,
        u \in SnapshotInputs.urls : kiosk_product_edit_submit(1, i, f, u)

SpecSnapshot == Init /\ [][NextSnapshot]_vars

(* The device of kiosk 1 pairs and polls while two admins mutate the kiosk's
   config, their handlers interleaving. The device and the server's handlers
   for it always get to take their next step; the admins may stop at any
   time. *)
NextPolling ==
  \/ DeviceStep
  \/ \E s \in Sessions : EnsureKioskAccess(s, 1)
  \/ \E s \in Sessions : RaceCommit(s)

SpecPolling == Init /\ [][NextPolling]_vars /\ WF_vars(DeviceStep)

\* stock lists of the device of kiosk 1: an own slot, and an own with a foreign one
StockLists == { << Item(1, 2, NoAlarm) >>, << Item(1, 4, 2), Item(3, 1, 0) >> }

(* Every writer of stock, run one after another: inventory updates of kiosk
   1's device, the admin's stock buttons, assignments and clears on either
   kiosk, and change_slot_stock. Requests name slots 1 (kiosk 1) and 3
   (kiosk 2). *)
NextStock ==
  \/ AllIdle /\ HandshakeBegin(1, "K1")
  \/ HandshakeStep(1)
  \/ AllIdle /\ InventoryBegin(1, 1, "key1")
  \/ InventoryStep(1, StockLists)
  \/ AllIdle /\ \E k \in Kiosks : EnsureKioskAccess(1, k)
  \/ \E sl \in {1, 3}, f \in AnyAssignForms : kiosk_slot_assign(1, sl, 1, f)
  \/ \E sl \in {1, 3}, f \in AnyAssignForms : kiosk_slot_assign_json(1, sl, 1, f)
  \/ \E sl \in {1, 3} : kiosk_slot_clear(1, sl)
  \/ \E sl \in {1, 3}, action \in {"inc", "dec"} : kiosk_slot_stock_update(1, sl, action)
  \/ AllIdle /\ \E sl \in {1, 3}, delta \in {-1, 1} : change_slot_stock(sl, delta)

SpecStock == Init /\ [][NextStock]_vars

(* A kiosk opens pairing sessions, customers type pair codes into the web
   form, the kiosk polls the status, and time passes. *)
NextPairLookup ==
  \/ \E kiosk_id \in {1, 3}, ttl_sec \in TtlSecs : create_qr_auth_session(kiosk_id, ttl_sec)
  \/ \E code \in PairInputs : qr_auth_code_submit(code)
  \/ \E session_id \in QrIds : get_qr_auth_session_status(session_id)
  \/ \E session_id \in QrIds, user_id \in UserIds : complete_qr_auth_session(session_id, user_id)
  \/ Elapse

SpecPairLookup == Init /\ [][NextPairLookup]_vars

(***************************** properties ***********************************)
\* C1: along every sequence of admin config mutations on one kiosk,
\* config_version starts at 1 and each successful mutation reads the version the
\* previous one left and writes exactly that plus 1: after n mutations the
\* stored version is 1 + n, nothing skipped, nothing repeated, never lower.
C1_VersionMonotone ==
  \A k \in Kiosks :
    /\ kiosks[k].config_version = DefaultConfigVersion + Len(mutlog[k])
    /\ \A i \in 1..Len(mutlog[k]) :
          /\ mutlog[k][i].read = DefaultConfigVersion + (i - 1)
          /\ mutlog[k][i].wrote = mutlog[k][i].read + 1

\* two mutations of different kinds (a slot binding, an added image) have
\* committed on kiosk 1
C1_Witness ==
  /\ Len(mutlog[1]) = 2
  /\ kiosks[1].config_version = 3
  /\ vsp[1].exists
  /\ Cardinality(LoadScreenImages(1)) = 2

\* C2: no missed bump: every step that changes what BuildConfig returns for a
\* kiosk raises that kiosk's config_version by one in the same commit.
C2_NoMissedBump ==
  [][\A k \in Kiosks :
        StoredConfig(k)' # StoredConfig(k)
          => kiosks'[k].config_version = kiosks[k].config_version + 1]_vars

\* C3: a handshake or heartbeat response that carries config_version N together
\* with a config holds every change committed by the mutations that produced
\* versions <= N: when no mutation has written a version above N, the config
\* in the response is BuildConfig of the stored data.
C3_ConfigAsNewAsVersion ==
  (/\ resp.status = 200
   /\ resp.op \in {"handshake", "heartbeat"}
   /\ resp.config # NoConfig
   /\ \A i \in 1..Len(mutlog[resp.k]) : mutlog[resp.k][i].wrote <= resp.config_version)
    => resp.config = StoredConfig(resp.k)

\* C4: no lost update: once two mutations of a kiosk that both read version N
\* have committed, the stored config_version is at least N + 2.
C4_NoLostUpdate ==
  \A k \in Kiosks : \A i, j \in 1..Len(mutlog[k]) :
    (i < j /\ mutlog[k][i].read = mutlog[k][j].read)
      => kiosks[k].config_version >= mutlog[k][i].read + 2

\* C5: an authenticated heartbeat answers 200 with the stored config_version;
\* has_config_update is true exactly when the current_config_version it sent
\* (the one logged with it) is present and strictly below the stored version,
\* and a config is in the response exactly when has_config_update is true.
C5_HeartbeatDecision ==
  [][\A s \in Sessions :
       (sess[s].pc \in {"hb", "hb_build"} /\ sess'[s].pc = "idle") =>
         LET k == sess[s].k
             sent == status_logs'[Len(status_logs')].payload.current_config_version
             stored == kiosks'[k].config_version
         IN /\ resp'.op = "heartbeat"
            /\ resp'.status = 200
            /\ resp'.config_version = stored
            /\ resp'.has_config_update = (sent.set /\ sent.v < stored)
            /\ (resp'.config # NoConfig) = resp'.has_config_update]_vars

\* a heartbeat that sent version 1 against stored version 2 got the config
C5_Witness ==
  /\ resp.op = "heartbeat"
  /\ resp.status = 200
  /\ resp.cur = Cur(1)
  /\ resp.config_version = 2
  /\ resp.has_config_update
  /\ resp.config = StoredConfig(1)

\* C6: every authenticated heartbeat succeeds, appends exactly one status-log
\* row and leaves the earlier rows as they were, sets last_heartbeat_at, last_ip
\* and app_version, and leaves config_version, api_key, pair_code_4, the slots,
\* the bindings with their stock, the kiosk products and the images unchanged.
C6_HeartbeatFrame ==
  [][\A s \in Sessions :
       (sess[s].pc = "hb" /\ sess'[s].pc # "hb") =>
         LET k == sess[s].k
             n == Len(status_logs)
         IN /\ Len(status_logs') = n + 1
            /\ SubSeq(status_logs', 1, n) = status_logs
            /\ status_logs'[n + 1].kiosk_id = k
            /\ status_logs'[n + 1].status = "ONLINE"
            /\ kiosks'[k].last_heartbeat_at = now
            /\ kiosks'[k].last_ip \in ClientIps
            /\ kiosks'[k].app_version = status_logs'[n + 1].payload.app_version
            /\ kiosks'[k].config_version = kiosks[k].config_version
            /\ kiosks'[k].api_key = kiosks[k].api_key
            /\ kiosks'[k].pair_code_4 = kiosks[k].pair_code_4
            /\ \A j \in Kiosks \ {k} : kiosks'[j] = kiosks[j]
            /\ UNCHANGED <<slots, vsp, kiosk_products, screen_images, remote_vend, side>>
            /\ \/ sess'[s].pc = "hb_build"
               \/ sess'[s].pc = "idle" /\ resp'.status = 200]_vars

\* two heartbeats with the same payload are logged, the second one after the
\* clock moved, on a kiosk that has a binding
C6_Witness ==
  /\ Len(status_logs) = 2
  /\ status_logs[1] = status_logs[2]
  /\ kiosks[1].last_heartbeat_at = 1
  /\ vsp[1].exists
  /\ resp.op = "heartbeat"

\* the call was answered with the status and nothing stored changed
RejectedWith(status) ==
  /\ resp'.status = status
  /\ UNCHANGED <<db, key_seq, remote_vend, sess, mutlog, now, side>>

\* C7: on an existing active kiosk, Heartbeat, InventoryUpdate and RemotePing
\* answer 401 when the key header is absent, empty or different from the stored
\* api_key (an unset stored key included), and change nothing stored.
C7_AuthGating ==
  [][\A kid \in Kiosks, h \in HeaderKeys, s \in Sessions :
       (/\ kiosks[kid].is_active
        /\ (h = None \/ h = "" \/ h # kiosks[kid].api_key)
        /\ \/ HeartbeatBegin(s, kid, h)
           \/ InventoryBegin(s, kid, h)
           \/ kiosk_remote_ping(kid, h))
         => RejectedWith(401)]_vars

\* a call on the provisioned kiosk 1 was answered 401 while a binding with
\* stock and a pending remote-vend request are there to be changed
C7_Witness ==
  /\ resp.status = 401
  /\ kiosks[1].api_key = "key1"
  /\ vsp[1].exists
  /\ remote_vend[1] # NoId

\* C8: a missing or inactive kiosk is answered 403 by Handshake, Heartbeat,
\* InventoryUpdate, GetInventorySnapshot and RemotePing whatever key is sent,
\* and nothing stored changes.
C8_InactiveRejected ==
  [][/\ \A kid \in KioskIds, h \in HeaderKeys, s \in Sessions :
          (/\ (kid \notin Kiosks \/ ~kiosks[kid].is_active)
           /\ \/ HeartbeatBegin(s, kid, h)
              \/ InventoryBegin(s, kid, h)
              \/ get_kiosk_inventory(kid, h)
              \/ kiosk_remote_ping(kid, h))
            => RejectedWith(403)
     /\ \A c \in KioskCodes, s \in Sessions :
          (/\ \A kid \in Kiosks : kiosks[kid].code = c => ~kiosks[kid].is_active
           /\ HandshakeBegin(s, c))
            => RejectedWith(403)]_vars

\* a call was answered 403 after kiosk 1 was provisioned and heard from; the
\* inactive kiosk 2 still has its key and no heartbeat
C8_Witness ==
  /\ resp.status = 403
  /\ kiosks[1].api_key = "key1"
  /\ Len(status_logs) > 0
  /\ kiosks[2].api_key = "key0"
  /\ kiosks[2].last_heartbeat_at = NoTime

\* C9: GET /{kiosk_id}/inventory is served only when the key header equals the
\* stored api_key.
C9_InventoryNeedsKey ==
  [][\A kid \in Kiosks, h \in HeaderKeys :
       (/\ get_kiosk_inventory(kid, h)
        /\ (h = None \/ h = "" \/ h # kiosks[kid].api_key))
         => resp'.status # 200]_vars

Hits(v, k, items) ==
  {i \in 1..Len(items) : /\ items[i].slot_id \in SlotIds
                         /\ SlotKiosk[items[i].slot_id] = k
                         /\ v[items[i].slot_id].exists}

\* C11: a partial inventory update sets current_stock of each own, bound slot
\* an item names to the submitted value (the last one if named twice) and
\* low_stock_alarm only where an item provides it; items for unbound, foreign
\* or unknown slots change nothing and count as skipped; every other binding
\* keeps its row; updated + skipped is the number of submitted items.
C11_PartialUpdate ==
  [][\A items \in MoreItemLists :
       kiosk_inventory_update(1, "partial", items) =>
         LET k == sess[1].k
             hits == Hits(vsp, k, items)
             Of(sl) == {i \in hits : items[i].slot_id = sl}
             WithAlarm(sl) == {i \in Of(sl) : items[i].low_stock_alarm # NoAlarm}
         IN /\ \A sl \in SlotIds :
                 IF Of(sl) = {} THEN vsp'[sl] = vsp[sl]
                 ELSE vsp'[sl] =
                        [vsp[sl] EXCEPT
                           !.current_stock = items[Max(Of(sl))].current_stock,
                           !.low_stock_alarm =
                              IF WithAlarm(sl) = {} THEN @
                              ELSE items[Max(WithAlarm(sl))].low_stock_alarm]
            /\ resp'.updated = Cardinality(hits)
            /\ resp'.skipped = Len(items) - Cardinality(hits)
            /\ resp'.updated + resp'.skipped = Len(items)]_vars

\* a partial update of two items, one for the bound slot 2 of kiosk 1 and one
\* for the bound slot 3 of kiosk 2, changed slot 2 and left slots 1 and 3 alone
C11_Witness ==
  /\ resp.op = "inventory"
  /\ resp.status = 200
  /\ resp.mode = "partial"
  /\ resp.updated = 1
  /\ resp.skipped = 1
  /\ vsp[2].exists /\ vsp[2].current_stock = 4 /\ vsp[2].low_stock_alarm = 2
  /\ vsp[3].exists /\ vsp[3].current_stock = 3
  /\ vsp[1].exists /\ vsp[1].current_stock = 3

\* C12: a replace inventory update leaves every bound slot of the kiosk that
\* the list names with the submitted stock (low_stock_alarm only where given)
\* and every bound slot of the kiosk the list does not name with stock 0; it
\* reports updated = the kiosk's bound slots and skipped = its unbound slots.
C12_ReplaceUpdate ==
  [][\A items \in MoreItemLists :
       kiosk_inventory_update(1, "replace", items) =>
         LET k == sess[1].k
             own == {sl \in SlotIds : SlotKiosk[sl] = k}
             bound == {sl \in own : vsp[sl].exists}
             Of(sl) == {i \in 1..Len(items) : items[i].slot_id = sl}
             last(sl) == items[Max(Of(sl))]
         IN /\ \A sl \in bound :
                 /\ Of(sl) # {} =>
                      /\ vsp'[sl].current_stock = last(sl).current_stock
                      /\ vsp'[sl].low_stock_alarm =
                           IF last(sl).low_stock_alarm # NoAlarm
                           THEN last(sl).low_stock_alarm
                           ELSE vsp[sl].low_stock_alarm
                 /\ Of(sl) = {} =>
                      /\ vsp'[sl].current_stock = 0
                      /\ vsp'[sl].low_stock_alarm = vsp[sl].low_stock_alarm
            /\ \A sl \in SlotIds \ bound : vsp'[sl] = vsp[sl]
            /\ resp'.updated = Cardinality(bound)
            /\ resp'.skipped = Cardinality(own \ bound)]_vars

\* kiosk 1 with slots 1 and 2 bound and slot 4 unbound received a replace
\* naming slot 1 only: slot 1 holds the submitted 2, slot 2 was forced to 0,
\* updated = 2 and skipped = 1
C12_Witness ==
  /\ resp.op = "inventory"
  /\ resp.status = 200
  /\ resp.mode = "replace"
  /\ resp.updated = 2
  /\ resp.skipped = 1
  /\ vsp[1].exists /\ vsp[1].current_stock = 2
  /\ vsp[2].exists /\ vsp[2].current_stock = 0
  /\ ~vsp[4].exists

\* C13: an inventory update, in either mode, from its key check to its answer,
\* changes no config_version, no slot row (max_capacity included), creates,
\* deletes and re-targets no binding and touches no catalog row: of a binding
\* only current_stock and low_stock_alarm may differ afterwards.
C13_InventoryFrame ==
  [][(sess[1].pc = "inv" \/ sess'[1].pc = "inv") =>
       /\ \A k \in Kiosks : kiosks'[k].config_version = kiosks[k].config_version
       /\ slots' = slots
       /\ kiosk_products' = kiosk_products
       /\ \A sl \in SlotIds :
            /\ vsp'[sl].exists = vsp[sl].exists
            /\ vsp[sl].exists =>
                 vsp'[sl] = [vsp[sl] EXCEPT
                               !.current_stock = vsp'[sl].current_stock,
                               !.low_stock_alarm = vsp'[sl].low_stock_alarm]
            /\ ~vsp[sl].exists => vsp'[sl] = vsp[sl]]_vars

\* a replace update that named the bound slot 1 and the unbound slot 2 of
\* kiosk 1: slot 1 took stock and alarm, its kiosk product and the kiosk's
\* config_version (one assignment above the default) are as before, and
\* slots 2 and 4 are still unbound
C13_Witness ==
  /\ resp.op = "inventory"
  /\ resp.status = 200
  /\ resp.mode = "replace"
  /\ resp.updated = 1
  /\ resp.skipped = 2
  /\ vsp[1].exists /\ vsp[1].current_stock = 4 /\ vsp[1].low_stock_alarm = 2
  /\ vsp[1].kiosk_product_id = 1
  /\ ~vsp[2].exists
  /\ ~vsp[4].exists
  /\ kiosks[1].config_version = DefaultConfigVersion + 1

C15_TerminalAbsorbing ==
  [][\A i \in 1..Len(qr_auth_sessions) :
       LET before == qr_auth_sessions[i]
           after == qr_auth_sessions'[i]
       IN /\ (before.status # "VERIFIED" /\ after.status = "VERIFIED")
               => (before.status = "PENDING" /\ now <= before.expires_at)
          /\ before.status \in {"VERIFIED", "EXPIRED", "CANCELLED"}
               => /\ after.status = before.status
                  /\ after.verified_at = before.verified_at]_vars

\* C16: a status query of a PENDING session made after expires_at reports
\* EXPIRED and stores it; made at or before expires_at it reports PENDING and
\* stores nothing; a session that is not PENDING is reported as stored and
\* left alone; the passing of time alone changes no stored session.
C16_LazyExpiry ==
  [][/\ \A session_id \in 1..Len(qr_auth_sessions) :
          (resp'.op = "qr_status" /\ get_qr_auth_session_status(session_id)) =>
            LET before == qr_auth_sessions[session_id]
                after == qr_auth_sessions'[session_id]
            IN /\ (before.status = "PENDING" /\ now > before.expires_at)
                    => /\ resp'.session_status = "EXPIRED"
                       /\ after = [before EXCEPT !.status = "EXPIRED"]
               /\ (before.status = "PENDING" /\ now <= before.expires_at)
                    => /\ resp'.session_status = "PENDING"
                       /\ after = before
               /\ before.status # "PENDING"
                    => /\ resp'.session_status = before.status
                       /\ after = before
     /\ now' # now => qr_auth_sessions' = qr_auth_sessions]_vars

\* a session that was never verified was found expired by a status query one
\* time unit after its expires_at
C16_Witness ==
  /\ resp.op = "qr_status"
  /\ resp.status = 200
  /\ resp.session_status = "EXPIRED"
  /\ Len(qr_auth_sessions) >= 1
  /\ qr_auth_sessions[1].status = "EXPIRED"
  /\ qr_auth_sessions[1].verified_at = NoTime
  /\ now = qr_auth_sessions[1].expires_at + 1

\* C17: a verify on a session whose expires_at has passed answers with the
\* expired error whatever code is typed, the stored code included, and leaves
\* the session stored as EXPIRED.
C17_VerifyExpired ==
  [][\A session_id \in 1..Len(qr_auth_sessions), auth_code \in AuthInputs :
       (/\ resp'.op = "qr_verify"
        /\ now > qr_auth_sessions[session_id].expires_at
        /\ qr_auth_complete_from_web(session_id, auth_code))
         => /\ resp'.status = 400
            /\ resp'.detail = "Session expired"
            /\ qr_auth_sessions'[session_id] =
                 [qr_auth_sessions[session_id] EXCEPT !.status = "EXPIRED"]]_vars

\* the stored code of session 1 was typed one time unit after its expires_at
\* and was answered with the expired error; the session is stored as EXPIRED
C17_Witness ==
  /\ resp.op = "qr_verify"
  /\ resp.status = 400
  /\ resp.detail = "Session expired"
  /\ Len(qr_auth_sessions) >= 1
  /\ qr_auth_sessions[1].sms_code # <<>>
  /\ resp.auth_code = qr_auth_sessions[1].sms_code
  /\ qr_auth_sessions[1].status = "EXPIRED"
  /\ qr_auth_sessions[1].verified_at = NoTime
  /\ now > qr_auth_sessions[1].expires_at

\* C18: a verify on a session whose expires_at has not passed fails and leaves
\* every stored session as it is when no code was sent or when the typed code
\* (stripped of surrounding blanks by the route) differs from the stored one;
\* it stores VERIFIED and verified_at = now, and nothing else, when it equals
\* the stored one. A failed attempt changes nothing a later attempt depends on.
C18_VerifyUnexpired ==
  [][\A session_id \in 1..Len(qr_auth_sessions), auth_code \in AuthInputs :
       (/\ resp'.op = "qr_verify"
        /\ now <= qr_auth_sessions[session_id].expires_at
        /\ qr_auth_complete_from_web(session_id, auth_code))
         => LET before == qr_auth_sessions[session_id]
                input_code == Strip(auth_code)
            IN IF before.sms_code = <<>> \/ input_code # before.sms_code
               THEN /\ resp'.status = 400
                    /\ qr_auth_sessions' = qr_auth_sessions
               ELSE /\ resp'.status = 200
                    /\ qr_auth_sessions' =
                         [qr_auth_sessions EXCEPT
                            ![session_id] = [before EXCEPT !.status = "VERIFIED",
                                                           !.verified_at = now]]]_vars

\* the stored code of session 1 was typed before its expires_at: the session is
\* VERIFIED and stamped with the time of the call
C18_Witness ==
  /\ resp.op = "qr_verify"
  /\ resp.status = 200
  /\ Len(qr_auth_sessions) >= 1
  /\ resp.auth_code = qr_auth_sessions[1].sms_code
  /\ qr_auth_sessions[1].status = "VERIFIED"
  /\ qr_auth_sessions[1].verified_at = now
  /\ now <= qr_auth_sessions[1].expires_at
  /\ now > 0

\* what a send with a well-formed phone number does, but for what becomes of
\* the code stored before: it is answered 200 only on a PENDING session not
\* past its expires_at; answered 200 it has stored the phone number and a drawn
\* code and set expires_at to now + ttl; on a session that is not PENDING or is
\* past its expires_at it is answered 400 and leaves phone number, code and
\* expires_at as they were.
SendOutcome(session_id, phone) ==
  LET before == qr_auth_sessions[session_id]
      after == qr_auth_sessions'[session_id]
  IN /\ resp'.status = 200
          => /\ before.status = "PENDING"
             /\ now <= before.expires_at
             /\ after.phone_number = NormalizePhone(phone)
             /\ after.sms_code \in AuthCodes
             /\ after.expires_at = now + DefaultTtl
             /\ after.status = "PENDING"
     /\ (before.status # "PENDING" \/ now > before.expires_at)
          => /\ resp'.status = 400
             /\ after.phone_number = before.phone_number
             /\ after.sms_code = before.sms_code
             /\ after.expires_at = before.expires_at

\* C19 as stated: a send succeeds only on a PENDING, unexpired session; on
\* success it stores the phone number and a fresh code, after which the code
\* stored before no longer verifies, and sets expires_at to now + ttl; on a
\* non-PENDING or expired session it fails and stores and extends nothing.
C19_SendRearms ==
  [][\A session_id \in 1..Len(qr_auth_sessions), phone \in Phones :
       (/\ resp'.op = "qr_send"
        /\ ValidPhone(NormalizePhone(phone))
        /\ qr_auth_send_code(session_id, phone, resp'.status # 500))
         => /\ SendOutcome(session_id, phone)
            /\ (resp'.status = 200 /\ qr_auth_sessions[session_id].sms_code # <<>>)
                 => verify_phone_auth_code(qr_auth_sessions'[session_id], now,
                                           qr_auth_sessions[session_id].sms_code).error
                      # None]_vars

\* C19 amended: as stated, except that the code stored before no longer
\* verifies only if the newly drawn code differs from it; the new code is
\* drawn independently of the old one and may repeat it.
C19_SendRearmsUnlessRedrawn ==
  [][\A session_id \in 1..Len(qr_auth_sessions), phone \in Phones :
       (/\ resp'.op = "qr_send"
        /\ ValidPhone(NormalizePhone(phone))
        /\ qr_auth_send_code(session_id, phone, resp'.status # 500))
         => /\ SendOutcome(session_id, phone)
            /\ resp'.status = 200
                 => \A code \in AuthCodes :
                      (verify_phone_auth_code(qr_auth_sessions'[session_id], now,
                                              code).error = None)
                        <=> code = qr_auth_sessions'[session_id].sms_code]_vars

\* a send at time 1 on a session that already held a code set its expires_at
\* to 2; the session is still PENDING
C19_Witness ==
  /\ resp.op = "qr_send"
  /\ resp.status = 200
  /\ now = 1
  /\ Len(qr_auth_sessions) >= 1
  /\ qr_auth_sessions[1].status = "PENDING"
  /\ qr_auth_sessions[1].sms_code # <<>>
  /\ qr_auth_sessions[1].expires_at = now + DefaultTtl

\* the pair codes held, one entry per kiosk
HeldPairCodes ==
  [k \in Kiosks |-> kiosks[k].pair_code_4] \o
  [i \in 1..Len(new_kiosks) |-> new_kiosks[i].pair_code_4]

NoRepeat(codes) == \A i, j \in 1..Len(codes) : codes[i] = codes[j] => i = j

CodeHeld(code) == \E i \in 1..Len(HeldPairCodes) : HeldPairCodes[i] = code

CodeSpaceTaken == \A n \in 0..MaxPairCode : CodeHeld(Format04[n])

\* C20: no two kiosks hold the same pair_code_4, before and after every
\* creation; a creation stores only a code that no kiosk held; the generator
\* makes at most 50 attempts; when every code of the code space is taken a
\* creation stores no kiosk, and at 50 attempts it ends with an error.
C20_PairCodeUnique ==
  [][/\ NoRepeat(HeldPairCodes)
     /\ NoRepeat(HeldPairCodes')
     /\ Len(new_kiosks') > Len(new_kiosks)
          => /\ new_kiosks' = Append(new_kiosks, new_kiosks'[Len(new_kiosks')])
             /\ ~CodeHeld(new_kiosks'[Len(new_kiosks')].pair_code_4)
     /\ create_req.attempts <= MaxAttempts
     /\ create_req'.attempts <= MaxAttempts
     /\ CodeSpaceTaken
          => /\ new_kiosks' = new_kiosks
             /\ create_req.pc = "gen"
                  => IF create_req.attempts < MaxAttempts
                     THEN create_req'.attempts = create_req.attempts + 1
                     ELSE /\ create_req'.pc = "idle"
                          /\ resp'.status = 500]_vars

\* every code of the code space is held by a kiosk, two of them created here,
\* and the creation tried after that has ended with an error
C20_Witness ==
  /\ CodeSpaceTaken
  /\ Len(new_kiosks) = MaxPairCode + 1 - Cardinality(Kiosks)
  /\ Len(new_kiosks) >= 2
  /\ resp.op = "kiosk_create"
  /\ resp.status = 500
  /\ create_req.pc = "idle"

\* rows of the database owned by kiosk B
OwnedRows(B) ==
  [kiosk |-> kiosks[B],
   kiosk_products |-> [i \in {j \in KioskProductIds : kiosk_products[j].kiosk_id = B}
                         |-> kiosk_products[i]],
   slots |-> [sl \in SlotsOf({B}) |-> slots[sl]],
   vsp |-> [sl \in SlotsOf({B}) |-> vsp[sl]],
   config |-> StoredConfig(B)]

\* the request of this step is an edit naming a snapshot of another kiosk
ForeignEdit ==
  \E i \in KioskProductIds :
     /\ kiosk_products[i].kiosk_id # sess[1].k
     /\ \E f \in IsolationInputs.edits, u \in IsolationInputs.urls :
           kiosk_product_edit_submit(1, i, f, u)

RowColBefore(a, b) == a.row < b.row \/ (a.row = b.row /\ a.col < b.col)

\* every slot of the kiosk has exactly one entry, with the stored values
OneEntryPerSlot(config) ==
  /\ Len(config.slots) = Cardinality(SlotsOf({config.kiosk_id}))
  /\ \A sl \in SlotsOf({config.kiosk_id}) :
        \E n \in 1..Len(config.slots) : config.slots[n] = SlotConfig(sl)

\* the urls of the kiosk's active images, ascending by sort_order
ActiveImagesAscending(config) ==
  LET active == {i \in screen_images : i.kiosk_id = config.kiosk_id /\ i.is_active}
      urls == config.screensaver_images
  IN /\ Len(urls) = Cardinality(active)
     /\ \E f \in [1..Len(urls) -> active] :
           /\ \A n \in 1..Len(urls) : f[n].image_url = urls[n]
           /\ \A n, m \in 1..Len(urls) : n < m => f[n].sort_order < f[m].sort_order

\* C22: the config build_config returns has exactly one slot entry per
\* VendingSlot of the kiosk, the entries ascending by (row, col), and lists
\* exactly the kiosk's active images ascending by sort_order.
C22_ConfigOrdering ==
  [][ (\E k \in Kiosks : BuildConfigCall(k)) =>
        /\ OneEntryPerSlot(resp'.config)
        /\ \A n, m \in 1..Len(resp'.config.slots) :
              n < m => RowColBefore(resp'.config.slots[n], resp'.config.slots[m])
        /\ ActiveImagesAscending(resp'.config) ]_vars

\* the part of C22 the code does keep: entries and images, in any slot order
C22_ConfigContent ==
  [][ (\E k \in Kiosks : BuildConfigCall(k)) =>
        OneEntryPerSlot(resp'.config) /\ ActiveImagesAscending(resp'.config) ]_vars

\* C23: two calls of build_config for the same kiosk on the same stored data
\* return the same config: same slot entries in the same order, same images.
C23_ConfigDeterminism ==
  [][ /\ resp.op = "build_config" /\ resp'.op = "build_config"
      /\ resp'.k = resp.k /\ UNCHANGED db
      => resp'.config = resp.config ]_vars

\* the admin created or re-targeted the binding of the slot after the replace
\* of session 1 loaded its rows
ChangedSinceRead(sl) ==
  /\ vsp[sl].exists
  /\ \/ sl \notin DOMAIN sess[1].rows
     \/ sess[1].rows[sl].kiosk_product_id # vsp[sl].kiosk_product_id

\* C24: a replace-mode inventory update that interleaves with an admin slot
\* assign or clear on its kiosk never overwrites the current_stock of a
\* binding the admin created or re-targeted after the replace read its rows.
C24_ReplaceAgainstCurrentBindings ==
  [][ sess[1].pc = "inv_replace" /\ sess'[1].pc = "idle" =>
        \A sl \in SlotsOf({sess[1].k}) :
           ChangedSinceRead(sl) => vsp'[sl].current_stock = vsp[sl].current_stock ]_vars

\* C25: heartbeats of one kiosk that interleave with each other and with an
\* admin config mutation each append exactly one status-log row and alter no
\* existing row, and a heartbeat's commit leaves config_version as stored: a
\* heartbeat that read the kiosk at version N and commits after an admin
\* committed N + 1 leaves the stored version at N + 1.
C25_ConcurrentHeartbeats ==
  [][ /\ \A i \in 1..Len(status_logs) :
            i <= Len(status_logs') /\ status_logs'[i] = status_logs[i]
      /\ \A s \in Sessions :
            (sess[s].pc = "hb" /\ sess'[s].pc # "hb") =>
               /\ Len(status_logs') = Len(status_logs) + 1
               /\ status_logs'[Len(status_logs')].kiosk_id = sess[s].k
               /\ kiosks'[sess[s].k].config_version = kiosks[sess[s].k].config_version
      /\ (\A s \in Sessions : ~(sess[s].pc = "hb" /\ sess'[s].pc # "hb"))
            => Len(status_logs') = Len(status_logs) ]_vars

\* a heartbeat that read version N is about to commit after a concurrent
\* heartbeat appended its row and an admin committed a higher version
C25_Witness ==
  \E s \in Sessions :
     /\ sess[s].pc = "hb"
     /\ sess[s].ver < kiosks[sess[s].k].config_version
     /\ Len(status_logs) = 1
     /\ Len(mutlog[sess[s].k]) > 0

\* the snapshots kiosk k holds of master product pid
SnapshotsOf(k, pid) ==
  {i \in KioskProductIds : /\ kiosk_products[i].kiosk_id = k
                           /\ kiosk_products[i].base_product_id = pid}

Converged ==
  /\ device.version = Cur(kiosks[1].config_version)
  /\ device.config = StoredConfig(1)

\* no admin handler is running and none can start any more
AdminsDone ==
  /\ \A s \in Sessions : sess[s].pc # "admin"
  /\ kiosks[1].config_version >= MaxVersion

\* the paired device is between two polls and can poll once more
PollLeft ==
  /\ device.version.set
  /\ sess[1].pc = "idle"
  /\ device.seen = Len(status_logs)
  /\ Len(status_logs) < MaxLogs

\* C27: once the admin mutations have stopped, a device that keeps polling
\* with the version it holds, adopting version and config of every response
\* with has_config_update, comes to hold the stored config_version and
\* BuildConfig of the stored data, and from then on stays so and is answered
\* has_config_update = false.
C27_PollingConverges ==
  /\ (AdminsDone /\ PollLeft) ~> Converged
  /\ [][ (AdminsDone /\ Converged) =>
            /\ Converged'
            /\ (resp' # resp /\ resp'.op = "heartbeat") => ~resp'.has_config_update ]_vars

\* C28: whatever inventory updates, stock buttons, change_slot_stock calls,
\* slot assignments (with any integer form values) and clears have run, every
\* binding has current_stock >= 0 and low_stock_alarm >= 0.
C28_StockNonNegative ==
  \A sl \in SlotIds :
     vsp[sl].exists => vsp[sl].current_stock >= 0 /\ vsp[sl].low_stock_alarm >= 0

\* stock and alarm of the bindings on slots that are not of kiosk k
ForeignStock(k) ==
  [sl \in SlotIds \ SlotsOf({k}) |->
     IF vsp[sl].exists THEN <<vsp[sl].current_stock, vsp[sl].low_stock_alarm>> ELSE <<>>]

\* C29: an inventory update addressed to kiosk K, in either mode and whatever
\* slots its items name, and the admin stock inc/dec route addressed to kiosk
\* K change neither current_stock nor low_stock_alarm of a binding whose slot
\* belongs to another kiosk.
C29_StockIsolation ==
  [][ \A k \in Kiosks :
        /\ (sess[1].pc = "inv" /\ sess'[1].pc = "idle" /\ sess[1].k = k)
           => ForeignStock(k)' = ForeignStock(k)
        /\ (/\ sess[1].pc = "admin" /\ sess[1].k = k
            /\ \E sl \in SlotRequestIds, action \in {"inc", "dec"} :
                  kiosk_slot_stock_update(1, sl, action))
             => ForeignStock(k)' = ForeignStock(k) ]_vars

\* the device's part of C29: inventory updates of kiosk K leave the stock of
\* other kiosks' slots as it was
C29_InventoryIsolation ==
  [][ \A k \in Kiosks :
        (sess[1].pc = "inv" /\ sess'[1].pc = "idle" /\ sess[1].k = k)
           => ForeignStock(k)' = ForeignStock(k) ]_vars

\* C30: the pair-code lookup hands the caller either nothing or a session
\* that is PENDING and not past expires_at: an expired latest PENDING session
\* is flipped to EXPIRED and not handed on as an open pairing request.
C30_LookupOnlyOpenSessions ==
  [][ (/\ resp'.op = "qr_code" /\ resp'.status = 200
       /\ \E code \in PairInputs : qr_auth_code_submit(code))
        => /\ qr_auth_sessions'[resp'.session_id].status = "PENDING"
           /\ qr_auth_sessions'[resp'.session_id].expires_at >= now ]_vars

\* the part of C30 the code does keep: the lookup leaves no PENDING row past
\* its expiry among the rows it was given, and answers 400 when the code has
\* no PENDING session
C30_LookupFlipsExpired ==
  [][ \A code \in PairInputs :
        (resp'.op = "qr_code" /\ qr_auth_code_submit(code)) =>
           /\ resp'.status = 200 =>
                 ~(/\ qr_auth_sessions'[resp'.session_id].status = "PENDING"
                   /\ qr_auth_sessions'[resp'.session_id].expires_at < now)
           /\ (\A i \in 1..Len(qr_auth_sessions) :
                  ~(/\ qr_auth_sessions[i].status = "PENDING"
                    /\ qr_auth_sessions[i].kiosk_id \in Kiosks
                    /\ kiosks[qr_auth_sessions[i].kiosk_id].pair_code_4 = code))
                 => resp'.status = 400 ]_vars

====
